---------------------------- MODULE Spec2Model ----------------------------
(***************************************************************************)
(* Latency-correlation tracers of the ldy repository.                      *)
(*                                                                         *)
(* Every tracer stitches hook firings that carry a request key into one    *)
(* completed event: a hash map keeps the in-flight record of each key, a   *)
(* terminal hook emits the record into a ring buffer and deletes it.       *)
(*                                                                         *)
(*   Spec       v2 FUSE tracer (v2_fuse/bpf/fuse_trace.bpf.c), one hook    *)
(*              running to completion at a time                            *)
(*   SpecSMP    the same tracer with hooks running concurrently on CPUs,   *)
(*              interleaved at the granularity of map helpers and of       *)
(*              loads/stores of the shared record                          *)
(*   SpecRfuse  RFUSE tracer (bpf/rfuse_trace.bpf.c)                       *)
(*   SpecUser   user-space correlator of fuse_breakdown (handle_event)     *)
(***************************************************************************)
EXTENDS Integers, Sequences, FiniteSets, TLC

(***************************************************************************)
(* Bounds of the model.                                                    *)
(***************************************************************************)
\* last reading of the monotonic clock (bpf_ktime_get_ns); the first is 1
MaxTime == 2
\* request keys are 0 .. NKeys (0 is the key callers reserve for "unknown")
NKeys == 2
\* capacity of the request hash maps (max_entries, scaled down)
MaxEntries == 1
\* capacity of the ring buffers, in events (max_entries, scaled down)
RingCap == 1
\* width of the unsigned words the durations are computed in (__u64, scaled)
WordBits == 13
\* last value the sequence counter of the request-latency tracer is taken to
MaxSeq == 2
\* number of CSV rows after which the v2 user program is observed no more
MaxPrinted == 2
\* last value a hit counter or a queue depth of the entry/exit tracers is taken to
MaxCount == 2
\* number of slots of the user-space correlator (MAX_PENDING, scaled down)
MaxPending == 2
\* number of CSV rows after which the user-space correlator is observed no more
MaxRows == 1
\* number of CPUs that run hooks concurrently
NCpus == 2
\* number of hooks started in a concurrent run
MaxRuns == 3
\* number of worker threads of a benchmark (num_threads)
NumThreads == 2
\* number of writes a worker is to do (ops_per_thread)
OpsPerThread == 1

Keys    == 0 .. NKeys
\* opcode 0 is "not known at this hook"; 5 and 7 stand for any two opcodes
Opcodes == {0, 5, 7}
\* error values a reply header or a request end carries (0, -ENOENT)
ErrVals == {0 - 2, 0}
\* task 1 is a thread of the FUSE daemon, task 2 a thread of an application
DaemonTasks == {1}
AppTasks    == {2}
Tasks       == DaemonTasks \cup AppTasks

(***************************************************************************)
(* State.                                                                  *)
(***************************************************************************)
VARIABLES
    now,          \* the monotonic clock
    req_state,    \* v2: BPF hash map unique -> struct fuse_req_state
    events,       \* v2: ring buffer of struct fuse_req_event_v1
    wakeup_ts,    \* v2: BPF hash map tid -> wakeup timestamp
    wake2run_ns,  \* v2: BPF hash map tid -> wakeup-to-run delta
    rfuse_states, \* rfuse: BPF hash map (riq_id, unique) -> struct rfuse_req_state
    rfuse_events, \* rfuse: ring buffer of struct rfuse_req_event
    pid_alloc_map, \* rfuse: BPF hash map pid -> allocation start timestamp
    rf_thread,    \* rfuse: per submitting thread, its position between rfuse_get_req and rfuse_submit_request
    pending,      \* user: array of struct pending_ts, indexed unique % MAX_PENDING
    user_pid_alloc_map, \* user: array pid -> allocation start timestamp
    csv,          \* user: the rows written to the CSV file
    cpu,          \* smp: per CPU, the hook it runs, its position and its locals
    htab,         \* smp: the req_state hash map, unique -> element
    elems,        \* smp: the value memory of the preallocated elements
    nextGen,      \* smp (history): number of the next record to be created
    emits,        \* smp (history): events submitted per record number
    runs,         \* smp (history): hooks started so far
    lat_req_state, \* fuse_req_lat: BPF hash map unique -> struct fuse_req_event
    lat_events,   \* fuse_req_lat: ring buffer of struct fuse_req_event
    seq_cnt,      \* fuse_req_lat: the one element of the seq_cnt array map
    seq_hook,     \* fuse_req_lat: per CPU, the locals of an enqueue hook inside next_seq()
    printed,      \* v2 user program: the rows written to its CSV file
    loaded,       \* entry/exit tracers: the one BPF object that is attached
    ringbuf,      \* entry/exit tracers: the ring buffer of the attached object
    irq_entry_ts, \* irq: BPF hash map (cpu, irq) -> entry timestamp
    irq_count,    \* irq: per-CPU hash map irq -> count, as (cpu, irq) -> count
    softirq_raise_ts, \* softirq: BPF hash map (cpu, vec_nr) -> raise timestamp
    softirq_entry_ts, \* softirq: BPF hash map (cpu, vec_nr) -> entry timestamp
    softirq_count,    \* softirq: per-CPU hash map vec_nr -> count
    wake_ts,      \* sched: BPF hash map pid -> wake timestamp
    switch_cnt,   \* sched: per-CPU array of one counter, as cpu -> count
    switch_hook,  \* sched: the locals of an on_sched_switch between its lookup and its delete
    start_map,    \* vfs_write: BPF hash map pid_tgid -> struct start_data_t
    insert_ts_map, \* block: BPF hash map io_key -> insert timestamp
    issue_ts_map, \* block: BPF hash map io_key -> issue timestamp
    qdepth_pc_map, \* block: per-CPU hash map devkey -> queue depth
    start_gate,   \* benchmark: start_gate_t, its mutex (locked or not) and its started flag
    ready_gate,   \* benchmark: ready_gate_t, its mutex (locked or not) and its ready count
    g_stop,       \* benchmark: the stop flag
    main,         \* benchmark: the position and the loop counters of main()
    writer        \* benchmark: per worker, the position and the locals of writer_thread()

v2sched  == <<wakeup_ts, wake2run_ns>>
v2vars   == <<req_state, events, v2sched>>
rfvars   == <<rfuse_states, rfuse_events, pid_alloc_map, rf_thread>>
uservars == <<pending, user_pid_alloc_map, csv>>
\* the state of the other tracers, which no hook of the v2 tracer touches
smpvars  == <<cpu, htab, elems, nextGen, emits, runs>>
latvars  == <<lat_req_state, lat_events, seq_cnt, seq_hook>>
irqvars  == <<irq_entry_ts, irq_count>>
sirqvars == <<softirq_raise_ts, softirq_entry_ts, softirq_count>>
schedvars == <<wake_ts, switch_cnt, switch_hook>>
blkvars  == <<insert_ts_map, issue_ts_map, qdepth_pc_map>>
probevars == <<loaded, ringbuf, irqvars, sirqvars, schedvars, start_map, blkvars>>
benchvars == <<start_gate, ready_gate, g_stop, main, writer>>
NotV2    == <<rfvars, uservars, smpvars, latvars, printed, probevars, benchvars>>
vars     == <<now, req_state, events, v2sched, NotV2>>

(***************************************************************************)
(* Unsigned arithmetic and the BPF map helpers.                            *)
(***************************************************************************)
\* the value range of an unsigned word
WordMod == 2 ^ WordBits

\* a - b in unsigned arithmetic: C's (__u64) a - b, wrapping below zero
Sub64(a, b) == (a - b) % WordMod

\* bpf_map_lookup_elem(): non-NULL exactly when the key is in the map
Has(m, k) == k \in DOMAIN m

\* faulty variant: a map that takes a new key whatever its size
UpdateUnbounded(m, k, v, max_entries) ==
    [x \in (DOMAIN m) \cup {k} |-> IF x = k THEN v ELSE m[x]]

\* bpf_map_update_elem(.., BPF_ANY): insert or overwrite; a map that is full
\* refuses a new key (-E2BIG) and is left as it was
bpf_map_update_elem(m, k, v, max_entries) ==
    IF Has(m, k) \/ Cardinality(DOMAIN m) < max_entries
    THEN [x \in (DOMAIN m) \cup {k} |-> IF x = k THEN v ELSE m[x]]
    ELSE m

\* bpf_map_delete_elem(): remove the key if present
bpf_map_delete_elem(m, k) == [x \in (DOMAIN m) \ {k} |-> m[x]]

\* the map with no entry
EmptyMap == [x \in {} |-> 0]

\* bpf_ringbuf_reserve(): NULL when the ring has no room for one more event
RingHasRoom(ring) == Len(ring) < RingCap

(***************************************************************************)
(* Execution context of a hook: the current task.                          *)
(***************************************************************************)
\* bpf_get_current_comm(): task 1 is the daemon, the others are applications
CommOf(task) == IF task = 1 THEN "StackFS_ll" ELSE "fio"
\* bpf_get_current_pid_tgid(): low word tid, high word tgid
TidOf(task)  == task
TgidOf(task) == IF task = 3 THEN 2 ELSE task
\* bpf_get_smp_processor_id(): each task is pinned to a CPU of its own
CpuOf(task)  == task

\* the pids the user-space correlator keeps an allocation timestamp for
UserPids == {TgidOf(t) : t \in AppTasks}

\* struct pending_ts after memset(p, 0, sizeof(*p))
ZeroSlot ==
    [unique |-> 0, alloc_delay_ns |-> 0, queue_ts |-> 0, recv_ts |-> 0,
     send_ts |-> 0, end_ts |-> 0, opcode |-> 0]

\* comm_eq_16(): exactly the daemon's comm
comm_eq_16(comm) == comm = "StackFS_ll"

(***************************************************************************)
(* v2 FUSE tracer: the per-unique record and the hooks' stores into it.    *)
(***************************************************************************)
\* faulty variant: the initial record is not zeroed (struct fuse_req_state init;)
InitStateDirty(unique) ==
    [unique |-> unique, opcode |-> 5, err |-> 0,
     d_tgid |-> 0, d_tid |-> 0, k_tid |-> 0, flags |-> {"RECV"},
     d_cpu |-> 0, k_cpu |-> 0,
     ts_queue_ns |-> 0, ts_recv_ns |-> 1, ts_send_ns |-> 0, ts_end_ns |-> 0,
     sched_delay_ns |-> 0, d_comm |-> "", k_comm |-> ""]

\* struct fuse_req_state init = {}; init.unique = unique;
InitState(unique) ==
    [unique |-> unique, opcode |-> 0, err |-> 0,
     d_tgid |-> 0, d_tid |-> 0, k_tid |-> 0, flags |-> {},
     d_cpu |-> 0, k_cpu |-> 0,
     ts_queue_ns |-> 0, ts_recv_ns |-> 0, ts_send_ns |-> 0, ts_end_ns |-> 0,
     sched_delay_ns |-> 0, d_comm |-> "", k_comm |-> ""]

\* faulty variant: a full map makes room by dropping one of its records
GetOrInitEvicting(m, unique) ==
    IF Has(m, unique) THEN m
    ELSE IF Cardinality(DOMAIN m) < MaxEntries
         THEN bpf_map_update_elem(m, unique, InitState(unique), MaxEntries)
         ELSE LET victim == CHOOSE k \in DOMAIN m : TRUE IN
                bpf_map_update_elem(bpf_map_delete_elem(m, victim), unique,
                                    InitState(unique), MaxEntries)

\* get_or_init_state(): the map after the helper; the returned pointer is
\* non-NULL exactly when the key is in that map
get_or_init_state(m, unique) ==
    IF Has(m, unique) THEN m
    ELSE bpf_map_update_elem(m, unique, InitState(unique), MaxEntries)

\* faulty variant: the queue hook keeps an opcode that is already stored
QueueStoresKeepOpcode(st, opcode, task, ts) ==
    [st EXCEPT !.opcode = IF @ = 0 THEN opcode ELSE @,
               !.k_tid = TidOf(task), !.k_cpu = CpuOf(task),
               !.ts_queue_ns = ts, !.flags = @ \cup {"QUEUE"},
               !.k_comm = CommOf(task)]

\* kp_trace_fuse_queue_request, the stores through st
QueueStores(st, opcode, task, ts) ==
    [st EXCEPT !.opcode = opcode, !.k_tid = TidOf(task), !.k_cpu = CpuOf(task),
               !.ts_queue_ns = ts, !.flags = @ \cup {"QUEUE"},
               !.k_comm = CommOf(task)]

\* up_receive_buf, the stores through st before the wake2run lookup
RecvStores(st, opcode, task, ts) ==
    [st EXCEPT !.opcode = IF @ = 0 THEN opcode ELSE @,
               !.d_tgid = TgidOf(task), !.d_tid = TidOf(task),
               !.d_cpu = CpuOf(task), !.ts_recv_ns = ts,
               !.flags = @ \cup {"RECV"}, !.d_comm = CommOf(task)]

\* up_receive_buf, the one-shot attachment of the daemon's wake2run delta
SchedStores(st, w2r, tid) ==
    IF Has(w2r, tid)
    THEN [st EXCEPT !.sched_delay_ns = w2r[tid], !.flags = @ \cup {"SCHED"}]
    ELSE st

\* up_fuse_send_msg, the stores through st
SendStores(st, error, ts) ==
    [st EXCEPT !.ts_send_ns = ts, !.flags = @ \cup {"SEND"},
               !.err = IF "END" \in st.flags THEN @ ELSE error]

\* emit_req_end_and_cleanup, the stores through st before the event is built
EndStores(st, opcode, err, ts) ==
    [st EXCEPT !.opcode = IF opcode # 0 THEN opcode ELSE @,
               !.err = err, !.ts_end_ns = ts, !.flags = @ \cup {"END"}]

\* faulty variant: the difference is taken without looking at the flags
DerivedUnflagged(st, fa, fb, ta, tb) ==
    IF tb >= ta THEN Sub64(tb, ta) ELSE 0

\* one derived duration of emit_req_end_and_cleanup: computed when both flags
\* are set and the later timestamp is not the smaller one; the memset leaves 0
Derived(st, fa, fb, ta, tb) ==
    IF fa \in st.flags /\ fb \in st.flags /\ tb >= ta THEN Sub64(tb, ta) ELSE 0

\* faulty variant: the daemon time is measured from the queue timestamp
MakeEventDaemonFromQueue(st) ==
    [unique |-> st.unique, opcode |-> st.opcode, err |-> st.err,
     d_tgid |-> st.d_tgid, d_tid |-> st.d_tid, k_tid |-> st.k_tid,
     flags |-> st.flags, d_cpu |-> st.d_cpu, k_cpu |-> st.k_cpu,
     ts_queue_ns |-> st.ts_queue_ns, ts_recv_ns |-> st.ts_recv_ns,
     ts_send_ns |-> st.ts_send_ns, ts_end_ns |-> st.ts_end_ns,
     queuing_ns  |-> Derived(st, "QUEUE", "RECV", st.ts_queue_ns, st.ts_recv_ns),
     sched_delay_ns |-> st.sched_delay_ns,
     daemon_ns   |-> Derived(st, "QUEUE", "SEND", st.ts_queue_ns, st.ts_send_ns),
     response_ns |-> Derived(st, "SEND", "END", st.ts_send_ns, st.ts_end_ns),
     d_comm |-> st.d_comm, k_comm |-> st.k_comm]

\* emit_req_end_and_cleanup, the struct fuse_req_event_v1 built from st
MakeEvent(st) ==
    [unique |-> st.unique, opcode |-> st.opcode, err |-> st.err,
     d_tgid |-> st.d_tgid, d_tid |-> st.d_tid, k_tid |-> st.k_tid,
     flags |-> st.flags, d_cpu |-> st.d_cpu, k_cpu |-> st.k_cpu,
     ts_queue_ns |-> st.ts_queue_ns, ts_recv_ns |-> st.ts_recv_ns,
     ts_send_ns |-> st.ts_send_ns, ts_end_ns |-> st.ts_end_ns,
     queuing_ns  |-> Derived(st, "QUEUE", "RECV", st.ts_queue_ns, st.ts_recv_ns),
     sched_delay_ns |-> st.sched_delay_ns,
     daemon_ns   |-> Derived(st, "RECV", "SEND", st.ts_recv_ns, st.ts_send_ns),
     response_ns |-> Derived(st, "SEND", "END", st.ts_send_ns, st.ts_end_ns),
     d_comm |-> st.d_comm, k_comm |-> st.k_comm]

\* the CPUs, and the elements a preallocated hash map owns: max_entries plus
\* one spare per CPU
Cpus    == 1 .. NCpus
ElemIds == 1 .. MaxEntries + NCpus

\* a CPU that runs no hook; st = 0 is the NULL pointer
IdleCpu ==
    [pc |-> "idle", hook |-> "", unique |-> 0, st |-> 0, fl |-> {}, g |-> 0,
     t |-> 0]

\* the memory of an element: a struct fuse_req_state, with the number of the
\* record it holds (history)
ZeroElem == [gen |-> 0] @@ InitState(0)

(***************************************************************************)
(* v2 FUSE tracer: the hooks, each run to completion.                      *)
(***************************************************************************)
\* the value kp_trace_fuse_queue_request returns to the kprobe machinery:
\* return 0 when get_or_init_state gives NULL, return 0 after the stores
kp_trace_fuse_queue_request_ret(m, unique) ==
    IF ~Has(get_or_init_state(m, unique), unique) THEN 0 ELSE 0

kp_trace_fuse_queue_request(opcode, unique, task) ==
    /\ LET m == get_or_init_state(req_state, unique) IN
         IF ~Has(m, unique)
         THEN req_state' = m
         ELSE req_state' = [m EXCEPT ![unique] = QueueStores(@, opcode, task, now)]
    /\ UNCHANGED <<now, events, v2sched, NotV2>>

\* faulty variant: the attached delta is left in wake2run_ns
ReceiveKeepingDelta(opcode, unique, task) ==
    /\ LET m   == get_or_init_state(req_state, unique)
           tid == TidOf(task) IN
         IF ~Has(m, unique)
         THEN req_state' = m
         ELSE req_state' = [m EXCEPT ![unique] =
                 SchedStores(RecvStores(@, opcode, task, now), wake2run_ns, tid)]
    /\ UNCHANGED <<now, events, v2sched, NotV2>>

up_receive_buf(opcode, unique, task) ==
    /\ LET m   == get_or_init_state(req_state, unique)
           tid == TidOf(task) IN
         IF ~Has(m, unique)
         THEN /\ req_state' = m
              /\ UNCHANGED wake2run_ns
         ELSE /\ req_state' = [m EXCEPT ![unique] =
                     SchedStores(RecvStores(@, opcode, task, now), wake2run_ns, tid)]
              /\ wake2run_ns' = bpf_map_delete_elem(wake2run_ns, tid)
    /\ UNCHANGED <<now, events, wakeup_ts, NotV2>>

\* readable: count > 0, iov non-NULL and both bpf_probe_read_user succeed
up_fuse_send_msg(readable, unique, error) ==
    /\ IF ~readable
       THEN UNCHANGED req_state
       ELSE LET m == get_or_init_state(req_state, unique) IN
              IF ~Has(m, unique)
              THEN req_state' = m
              ELSE req_state' = [m EXCEPT ![unique] = SendStores(@, error, now)]
    /\ UNCHANGED <<now, events, v2sched, NotV2>>

\* faulty variant: the request-end hook creates the record it does not find
EmitEndCreating(unique, opcode, err, ts_end_ns) ==
    LET m  == get_or_init_state(req_state, unique) IN
    IF ~Has(m, unique)
    THEN UNCHANGED <<req_state, events>>
    ELSE LET st == EndStores(m[unique], opcode, err, ts_end_ns) IN
           /\ IF RingHasRoom(events)
              THEN events' = Append(events, MakeEvent(st))
              ELSE UNCHANGED events
           /\ req_state' = IF Has(req_state, unique)
                           THEN bpf_map_delete_elem(req_state, unique)
                           ELSE m

\* faulty variant: the request-end hook returns when the ring has no room
EmitEndLeakOnFull(unique, opcode, err, ts_end_ns) ==
    IF ~Has(req_state, unique)
    THEN UNCHANGED <<req_state, events>>
    ELSE LET st == EndStores(req_state[unique], opcode, err, ts_end_ns) IN
           IF RingHasRoom(events)
           THEN /\ events' = Append(events, MakeEvent(st))
                /\ req_state' = bpf_map_delete_elem(req_state, unique)
           ELSE /\ UNCHANGED events
                /\ req_state' = [req_state EXCEPT ![unique] = st]

emit_req_end_and_cleanup(unique, opcode, err, ts_end_ns) ==
    IF ~Has(req_state, unique)
    THEN UNCHANGED <<req_state, events>>
    ELSE LET st == EndStores(req_state[unique], opcode, err, ts_end_ns) IN
           /\ IF RingHasRoom(events)
              THEN events' = Append(events, MakeEvent(st))
              ELSE UNCHANGED events
           /\ req_state' = bpf_map_delete_elem(req_state, unique)

kp_trace_fuse_request_end(opcode, unique, err) ==
    /\ emit_req_end_and_cleanup(unique, opcode, err, now)
    /\ UNCHANGED <<now, v2sched, NotV2>>

\* ring_buffer__poll(): the consumer takes the oldest event of the ring
ring_buffer__poll ==
    /\ events # <<>>
    /\ events' = Tail(events)
    /\ UNCHANGED <<now, req_state, v2sched, NotV2>>

\* the monotonic clock advances
Tick ==
    /\ now < MaxTime
    /\ now' = now + 1
    /\ UNCHANGED <<req_state, events, v2sched, NotV2>>

InitV2 ==
    /\ req_state = EmptyMap
    /\ events = <<>>
    /\ printed = <<>>
    /\ wakeup_ts = EmptyMap
    /\ wake2run_ns = EmptyMap

\* the threads of the submitting process, and a thread outside rfuse_get_req
AppThreads == {2, 3}
ThreadIdle == [pc |-> "idle", ts |-> 0]

InitRfuse ==
    /\ rf_thread = [t \in AppThreads |-> ThreadIdle]
    /\ rfuse_states = EmptyMap
    /\ rfuse_events = <<>>
    /\ pid_alloc_map = EmptyMap

\* static arrays of the user-space correlator are zero-filled, no row written
InitUser ==
    /\ pending = [i \in 0 .. MaxPending - 1 |-> ZeroSlot]
    /\ user_pid_alloc_map = [p \in UserPids |-> 0]
    /\ csv = <<>>

\* no CPU runs a hook, the map is empty and its elements are zero-filled
InitSMP ==
    /\ cpu = [c \in Cpus |-> IdleCpu]
    /\ htab = EmptyMap
    /\ elems = [e \in ElemIds |-> ZeroElem]
    /\ nextGen = 1
    /\ emits = [g \in 1 .. MaxRuns |-> 0]
    /\ runs = 0

\* a CPU that runs no enqueue hook
SeqIdle == [pc |-> "idle", unique |-> 0, v |-> 0]

\* no request in flight, an empty ring, the array element zero-filled
InitLat ==
    /\ lat_req_state = EmptyMap
    /\ lat_events = <<>>
    /\ seq_cnt = 0
    /\ seq_hook = [c \in Cpus |-> SeqIdle]

\* the BPF objects of the entry/exit tracers; "none" when a FUSE tracer runs
Progs == {"irq", "softirq", "sched", "vfs", "blk"}

\* no on_sched_switch is between its lookup and its delete
HookIdle == [pc |-> "idle"]

\* the maps of the entry/exit tracers are empty at load; per-CPU arrays are
\* zero-filled
InitProbeMaps ==
    /\ ringbuf = <<>>
    /\ irq_entry_ts = EmptyMap /\ irq_count = EmptyMap
    /\ softirq_raise_ts = EmptyMap /\ softirq_entry_ts = EmptyMap
    /\ softirq_count = EmptyMap
    /\ wake_ts = EmptyMap /\ switch_cnt = [c \in Cpus |-> 0]
    /\ switch_hook = HookIdle
    /\ start_map = EmptyMap
    /\ insert_ts_map = EmptyMap /\ issue_ts_map = EmptyMap
    /\ qdepth_pc_map = EmptyMap

\* the worker threads of a benchmark, numbered as args[i].tid
Tids == 0 .. NumThreads - 1
\* what pthread_create() returns: 0, or an error number (EAGAIN)
CreateRcs == {0, 11}
\* a worker that main() has not created yet
WriterIdle == [pc |-> "none", ok |-> TRUE, ops |-> 0, io |-> FALSE]

\* the benchmark after start_gate_init(), ready_gate_init() and the store
\* to g_stop: both gates closed and unlocked, no worker created
InitBench ==
    /\ start_gate = [mtx |-> FALSE, started |-> 0]
    /\ ready_gate = [mtx |-> FALSE, ready |-> 0]
    /\ g_stop = 0
    /\ main = [pc |-> "create", created |-> 0, joined |-> 0, failed |-> FALSE]
    /\ writer = [t \in Tids |-> WriterIdle]

Init ==
    /\ now = 1
    /\ loaded = "none"
    /\ InitProbeMaps
    /\ InitV2
    /\ InitRfuse
    /\ InitUser
    /\ InitSMP
    /\ InitLat
    /\ InitBench

Next ==
    \/ Tick
    \/ \E op \in Opcodes, u \in Keys, t \in AppTasks :
          kp_trace_fuse_queue_request(op, u, t)
    \/ \E op \in Opcodes, u \in Keys, t \in DaemonTasks :
          up_receive_buf(op, u, t)
    \/ \E r \in BOOLEAN, u \in Keys, e \in ErrVals : up_fuse_send_msg(r, u, e)
    \/ \E op \in Opcodes, u \in Keys, e \in ErrVals :
          kp_trace_fuse_request_end(op, u, e)
    \/ ring_buffer__poll

Spec == Init /\ [][Next]_vars

(***************************************************************************)
(* v2 FUSE tracer with its user program: ring_buffer__poll hands each      *)
(* event to handle_event, which writes one CSV row per event.              *)
(***************************************************************************)
OrderOpcodes == {5}
OrderErrs    == {0}

\* the columns of the CSV row that identify the event and its terminal mark
RowOf(e) == [unique |-> e.unique, ts_end_ns |-> e.ts_end_ns]

\* faulty variant: the row of the newest event is put before the older rows
PollNewestFirst ==
    /\ events # <<>>
    /\ Len(printed) < MaxPrinted
    /\ printed' = <<RowOf(Head(events))>> \o printed
    /\ events' = Tail(events)
    /\ UNCHANGED <<now, req_state, v2sched, rfvars, uservars, smpvars, latvars,
                   probevars, benchvars>>

\* ring_buffer__poll() with the callback handle_event of the v2 user program:
\* the oldest event of the ring is consumed and its row is written
ring_buffer__poll_handle_event ==
    /\ events # <<>>
    /\ Len(printed) < MaxPrinted
    /\ printed' = Append(printed, RowOf(Head(events)))
    /\ events' = Tail(events)
    /\ UNCHANGED <<now, req_state, v2sched, rfvars, uservars, smpvars, latvars,
                   probevars, benchvars>>

NextOrder ==
    \/ Tick
    \/ \E op \in OrderOpcodes, u \in Keys, t \in AppTasks :
          kp_trace_fuse_queue_request(op, u, t)
    \/ \E op \in OrderOpcodes, u \in Keys, e \in OrderErrs :
          kp_trace_fuse_request_end(op, u, e)
    \/ ring_buffer__poll_handle_event

SpecOrder == Init /\ [][NextOrder]_vars

(***************************************************************************)
(* v2 FUSE tracer on one request whose hooks fire at given clock readings. *)
(***************************************************************************)
\* the clock readings at which the hooks of the request fire
RunTimes == {1000, 1500, 4000, 4200}
\* the unique of the request
RunKeys == {42}
RunOpcodes == {0, 5}

\* the clock moves on to a later one of the readings
RunTick ==
    /\ \E t \in RunTimes : t > now /\ now' = t
    /\ UNCHANGED <<req_state, events, v2sched, NotV2>>

InitRun ==
    /\ now = 1000
    /\ loaded = "none"
    /\ InitProbeMaps
    /\ InitV2
    /\ InitRfuse
    /\ InitUser
    /\ InitSMP
    /\ InitLat
    /\ InitBench

NextRun ==
    \/ RunTick
    \/ \E op \in RunOpcodes, u \in RunKeys, t \in AppTasks :
          kp_trace_fuse_queue_request(op, u, t)
    \/ \E op \in RunOpcodes, u \in RunKeys, t \in DaemonTasks :
          up_receive_buf(op, u, t)
    \/ \E r \in BOOLEAN, u \in RunKeys, e \in ErrVals : up_fuse_send_msg(r, u, e)
    \/ \E op \in RunOpcodes, u \in RunKeys, e \in ErrVals :
          kp_trace_fuse_request_end(op, u, e)
    \/ ring_buffer__poll

SpecRun == InitRun /\ [][NextRun]_vars

(***************************************************************************)
(* Request-latency tracer (bpf/fuse_req_lat.bpf.c): the queue hook builds  *)
(* the record, the copy hook and the request-end hook only look it up.     *)
(***************************************************************************)
LatOpcodes == {5}
\* in.h.len of the request header
LatLens    == {64}

\* the frame of a hook of this tracer
LatFrame ==
    UNCHANGED <<now, v2vars, rfvars, uservars, smpvars, printed, probevars, benchvars, seq_hook>>

\* next_seq(): the counter after the call, which is also the value returned
next_seq == seq_cnt + 1

\* headers: read_req_headers() succeeds
kprobe_queue_request_and_unlock(headers, opcode, len, unique) ==
    /\ IF ~headers \/ unique = 0
       THEN UNCHANGED <<lat_req_state, seq_cnt>>
       ELSE /\ seq_cnt < MaxSeq
            /\ LET ev == [unique |-> unique, opcode |-> opcode, len |-> len,
                          err |-> 0, enqueue_ts_ns |-> now, dequeue_ts_ns |-> 0,
                          done_ts_ns |-> 0, queue_wait_ns |-> 0, daemon_ns |-> 0,
                          seq |-> next_seq] IN
                 /\ seq_cnt' = next_seq
                 /\ lat_req_state' =
                       bpf_map_update_elem(lat_req_state, unique, ev, MaxEntries)
    /\ UNCHANGED lat_events
    /\ LatFrame

\* headers: cs, cs->req and the request headers are all readable
kprobe_fuse_copy_args(headers, unique) ==
    /\ IF ~headers \/ unique = 0 \/ ~Has(lat_req_state, unique)
       THEN UNCHANGED lat_req_state
       ELSE IF lat_req_state[unique].dequeue_ts_ns # 0
            THEN UNCHANGED lat_req_state
            ELSE LET ev == lat_req_state[unique] IN
                   lat_req_state' = [lat_req_state EXCEPT ![unique] =
                      [ev EXCEPT !.dequeue_ts_ns = now,
                                 !.queue_wait_ns =
                                    IF ev.enqueue_ts_ns # 0
                                    THEN Sub64(now, ev.enqueue_ts_ns)
                                    ELSE ev.queue_wait_ns]]
    /\ UNCHANGED <<lat_events, seq_cnt>>
    /\ LatFrame

kprobe_fuse_request_end(headers, unique, error) ==
    /\ IF ~headers \/ unique = 0 \/ ~Has(lat_req_state, unique)
       THEN UNCHANGED <<lat_req_state, lat_events>>
       ELSE LET ev == lat_req_state[unique]
                st == [ev EXCEPT
                          !.done_ts_ns = now, !.err = error,
                          !.daemon_ns = IF ev.dequeue_ts_ns # 0
                                        THEN Sub64(now, ev.dequeue_ts_ns)
                                        ELSE ev.daemon_ns] IN
              /\ IF RingHasRoom(lat_events)
                 THEN lat_events' = Append(lat_events, st)
                 ELSE UNCHANGED lat_events
              /\ lat_req_state' = bpf_map_delete_elem(lat_req_state, unique)
    /\ UNCHANGED seq_cnt
    /\ LatFrame

\* ring_buffer__poll() of the user-space reader: the oldest event is taken
lat_ring_buffer__poll ==
    /\ lat_events # <<>>
    /\ lat_events' = Tail(lat_events)
    /\ UNCHANGED <<lat_req_state, seq_cnt>>
    /\ LatFrame

NextLat ==
    \/ Tick
    \/ \E h \in BOOLEAN, op \in LatOpcodes, l \in LatLens, u \in Keys :
          kprobe_queue_request_and_unlock(h, op, l, u)
    \/ \E h \in BOOLEAN, u \in Keys : kprobe_fuse_copy_args(h, u)
    \/ \E h \in BOOLEAN, u \in Keys, e \in ErrVals :
          kprobe_fuse_request_end(h, u, e)
    \/ lat_ring_buffer__poll

SpecLat == Init /\ [][NextLat]_vars

(***************************************************************************)
(* fuse_req_lat with the enqueue hook running on several CPUs.  next_seq() *)
(* is a lookup and read of the counter, then an update with the value plus *)
(* one; the hook then stores the record.  The program takes no lock and    *)
(* uses no atomic add.                                                     *)
(***************************************************************************)
SeqKeys == 1 .. NKeys

SeqFrame ==
    UNCHANGED <<now, v2vars, rfvars, uservars, smpvars, printed, probevars, benchvars>>

\* kprobe_queue_request_and_unlock fires on CPU c with readable headers and
\* a unique that is not 0
queue_request_enter(c, unique) ==
    /\ seq_hook[c].pc = "idle"
    /\ seq_cnt < MaxSeq
    /\ \A d \in Cpus : seq_hook[d].unique # unique
    /\ seq_hook' = [seq_hook EXCEPT ![c] = [pc |-> "read", unique |-> unique, v |-> 0]]
    /\ UNCHANGED <<lat_req_state, lat_events, seq_cnt>>
    /\ SeqFrame

\* next_seq(): p = bpf_map_lookup_elem(&seq_cnt, &key); v = *p + 1; the
\* element of an array map always exists
next_seq_read(c) ==
    /\ seq_hook[c].pc = "read"
    /\ seq_hook' = [seq_hook EXCEPT ![c].pc = "update", ![c].v = seq_cnt + 1]
    /\ UNCHANGED <<lat_req_state, lat_events, seq_cnt>>
    /\ SeqFrame

\* next_seq(): bpf_map_update_elem(&seq_cnt, &key, &v, BPF_ANY); return v;
next_seq_update(c) ==
    /\ seq_hook[c].pc = "update"
    /\ seq_cnt' = seq_hook[c].v
    /\ seq_hook' = [seq_hook EXCEPT ![c].pc = "store"]
    /\ UNCHANGED <<lat_req_state, lat_events>>
    /\ SeqFrame

\* ev.seq = next_seq(); bpf_map_update_elem(&req_state, &unique, &ev, BPF_ANY)
queue_request_store(c, opcode, len) ==
    /\ seq_hook[c].pc = "store"
    /\ lat_req_state' = bpf_map_update_elem(lat_req_state, seq_hook[c].unique,
          [unique |-> seq_hook[c].unique, opcode |-> opcode, len |-> len,
           err |-> 0, enqueue_ts_ns |-> now, dequeue_ts_ns |-> 0,
           done_ts_ns |-> 0, queue_wait_ns |-> 0, daemon_ns |-> 0,
           seq |-> seq_hook[c].v], MaxEntries)
    /\ seq_hook' = [seq_hook EXCEPT ![c] = SeqIdle]
    /\ UNCHANGED <<lat_events, seq_cnt>>
    /\ SeqFrame

NextSeq ==
    \/ Tick
    \/ \E c \in Cpus, u \in SeqKeys : queue_request_enter(c, u)
    \/ \E c \in Cpus : next_seq_read(c)
    \/ \E c \in Cpus : next_seq_update(c)
    \/ \E c \in Cpus, op \in LatOpcodes, l \in LatLens : queue_request_store(c, op, l)
    \/ \E h \in BOOLEAN, u \in SeqKeys, e \in ErrVals :
          kprobe_fuse_request_end(h, u, e)
    \/ lat_ring_buffer__poll

SpecSeq == Init /\ [][NextSeq]_vars

(***************************************************************************)
(* v2 FUSE tracer with its scheduler tracepoints: the wake-to-run delay of *)
(* the daemon thread is measured and attached to the request it receives.  *)
(***************************************************************************)
SchedOpcodes == {5}
SchedErrs    == {0}

\* tp_sched_wakeup and tp_sched_wakeup_new, one body under two section names
tp_sched_wakeup(task) ==
    /\ IF ~comm_eq_16(CommOf(task))
       THEN UNCHANGED wakeup_ts
       ELSE wakeup_ts' = bpf_map_update_elem(wakeup_ts, TidOf(task), now, MaxEntries)
    /\ UNCHANGED <<now, req_state, events, wake2run_ns, NotV2>>

tp_sched_switch(next) ==
    /\ IF ~Has(wakeup_ts, next)
       THEN UNCHANGED <<wakeup_ts, wake2run_ns>>
       ELSE /\ wake2run_ns' = bpf_map_update_elem(wake2run_ns, next,
                                  Sub64(now, wakeup_ts[next]), MaxEntries)
            /\ wakeup_ts' = bpf_map_delete_elem(wakeup_ts, next)
    /\ UNCHANGED <<now, req_state, events, NotV2>>

NextSched ==
    \/ Tick
    \/ \E t \in Tasks : tp_sched_wakeup(t)
    \/ \E t \in Tasks : tp_sched_switch(TidOf(t))
    \/ \E op \in SchedOpcodes, u \in Keys, t \in AppTasks :
          kp_trace_fuse_queue_request(op, u, t)
    \/ \E op \in SchedOpcodes, u \in Keys, t \in DaemonTasks :
          up_receive_buf(op, u, t)
    \/ \E op \in SchedOpcodes, u \in Keys, e \in SchedErrs :
          kp_trace_fuse_request_end(op, u, e)
    \/ ring_buffer__poll

SpecSched == Init /\ [][NextSched]_vars

(***************************************************************************)
(* Entry/exit tracers: a start hook stores a timestamp under a key, the    *)
(* matching exit hook turns it into a latency event.  Each tracer is a BPF *)
(* object of its own; one of them is attached in a run.                    *)
(*   irq      bpf/irq.bpf.c            vfs   vfs_write_latency.bpf.c       *)
(*   softirq  bpf/softirq.bpf.c        blk   trace_blk_sched.bpf.c         *)
(*   sched    bpf/sched.bpf.c                                              *)
(***************************************************************************)
Irqs    == {1}
Vecs    == {1}
\* the request signatures (dev, sector, nr_sector) of the block tracer
IoKeys  == {<<1, 16, 8>>}
\* count argument and f_flags of a vfs_write, and its return value
WriteLens  == {8}
WriteFlags == {0}
WriteRets  == {8}
BlkBytes   == {4096}

\* the frame of a hook of an entry/exit tracer
ProbeFrame ==
    UNCHANGED <<now, loaded, v2vars, rfvars, uservars, smpvars, latvars, printed, benchvars>>

\* bpf_ringbuf_reserve() .. bpf_ringbuf_submit(): the ring after the attempt
\* to emit e; a full ring is left as it was
Emit(ring, e) == IF RingHasRoom(ring) THEN Append(ring, e) ELSE ring

\* a per-CPU hash map after bpf_map_update_elem() on CPU c: max_entries
\* bounds the number of keys
PerCpuUpdate(m, c, k, v) ==
    IF Cardinality({x[2] : x \in DOMAIN m} \cup {k}) <= MaxEntries
    THEN [x \in (DOMAIN m) \cup {<<c, k>>} |-> IF x = <<c, k>> THEN v ELSE m[x]]
    ELSE m

\* inc_irq_count() / inc_softirq_count(): the per-CPU count after the call
IncCount(m, c, k) ==
    IF Has(m, <<c, k>>) THEN [m EXCEPT ![<<c, k>>] = @ + 1]
    ELSE PerCpuUpdate(m, c, k, 1)

\* the count the next increment starts from
CountOf(m, c, k) == IF Has(m, <<c, k>>) THEN m[<<c, k>>] ELSE 0

\* the object is attached by its loader
Attach(prog) ==
    /\ loaded = "none"
    /\ loaded' = prog
    /\ UNCHANGED <<now, v2vars, rfvars, uservars, smpvars, latvars, printed, benchvars,
                   ringbuf, irqvars, sirqvars, schedvars, start_map, blkvars>>

\* ring_buffer__poll() of the loader: the oldest event is consumed
probe_ring_buffer__poll ==
    /\ loaded # "none"
    /\ ringbuf # <<>>
    /\ ringbuf' = Tail(ringbuf)
    /\ UNCHANGED <<irqvars, sirqvars, schedvars, start_map, blkvars>>
    /\ ProbeFrame

\* the clock advances while an entry/exit tracer is attached
ProbeTick ==
    /\ loaded # "none"
    /\ Tick

(* ---- hard IRQ ---- *)
on_irq_handler_entry(c, irq) ==
    /\ loaded = "irq"
    /\ CountOf(irq_count, c, irq) < MaxCount
    /\ irq_entry_ts' = bpf_map_update_elem(irq_entry_ts, <<c, irq>>, now, MaxEntries)
    /\ irq_count' = IncCount(irq_count, c, irq)
    /\ UNCHANGED <<ringbuf, sirqvars, schedvars, start_map, blkvars>>
    /\ ProbeFrame

\* faulty variant: the entry timestamp is left in the map after the event
IrqExitKeepsEntry(c, irq) ==
    /\ loaded = "irq"
    /\ IF ~Has(irq_entry_ts, <<c, irq>>)
       THEN UNCHANGED ringbuf
       ELSE ringbuf' = Emit(ringbuf,
               [type |-> "EVENT_IRQ_LATENCY", ts_ns |-> now, cpu |-> c,
                irq |-> irq, latency_ns |-> Sub64(now, irq_entry_ts[<<c, irq>>])])
    /\ UNCHANGED <<irq_entry_ts, irq_count, sirqvars, schedvars, start_map, blkvars>>
    /\ ProbeFrame

on_irq_handler_exit(c, irq) ==
    /\ loaded = "irq"
    /\ IF ~Has(irq_entry_ts, <<c, irq>>)
       THEN UNCHANGED <<ringbuf, irq_entry_ts>>
       ELSE /\ ringbuf' = Emit(ringbuf,
                  [type |-> "EVENT_IRQ_LATENCY", ts_ns |-> now, cpu |-> c,
                   irq |-> irq,
                   latency_ns |-> Sub64(now, irq_entry_ts[<<c, irq>>])])
            /\ irq_entry_ts' = bpf_map_delete_elem(irq_entry_ts, <<c, irq>>)
    /\ UNCHANGED <<irq_count, sirqvars, schedvars, start_map, blkvars>>
    /\ ProbeFrame

(* ---- softirq ---- *)
on_softirq_raise(c, vec) ==
    /\ loaded = "softirq"
    /\ softirq_raise_ts' =
          bpf_map_update_elem(softirq_raise_ts, <<c, vec>>, now, MaxEntries)
    /\ UNCHANGED <<ringbuf, softirq_entry_ts, softirq_count, irqvars, schedvars,
                   start_map, blkvars>>
    /\ ProbeFrame

on_softirq_entry(c, vec) ==
    /\ loaded = "softirq"
    /\ CountOf(softirq_count, c, vec) < MaxCount
    /\ IF Has(softirq_raise_ts, <<c, vec>>)
       THEN /\ ringbuf' = Emit(ringbuf,
                  [type |-> "EVENT_SOFTIRQ_LATENCY", ts_ns |-> now, cpu |-> c,
                   vec_nr |-> vec, phase |-> "SOFTIRQ_RAISE_TO_ENTRY",
                   latency_ns |-> Sub64(now, softirq_raise_ts[<<c, vec>>])])
            /\ softirq_raise_ts' = bpf_map_delete_elem(softirq_raise_ts, <<c, vec>>)
       ELSE UNCHANGED <<ringbuf, softirq_raise_ts>>
    /\ softirq_entry_ts' =
          bpf_map_update_elem(softirq_entry_ts, <<c, vec>>, now, MaxEntries)
    /\ softirq_count' = IncCount(softirq_count, c, vec)
    /\ UNCHANGED <<irqvars, schedvars, start_map, blkvars>>
    /\ ProbeFrame

on_softirq_exit(c, vec) ==
    /\ loaded = "softirq"
    /\ IF ~Has(softirq_entry_ts, <<c, vec>>)
       THEN UNCHANGED <<ringbuf, softirq_entry_ts>>
       ELSE /\ ringbuf' = Emit(ringbuf,
                  [type |-> "EVENT_SOFTIRQ_LATENCY", ts_ns |-> now, cpu |-> c,
                   vec_nr |-> vec, phase |-> "SOFTIRQ_ENTRY_TO_EXIT",
                   latency_ns |-> Sub64(now, softirq_entry_ts[<<c, vec>>])])
            /\ softirq_entry_ts' = bpf_map_delete_elem(softirq_entry_ts, <<c, vec>>)
    /\ UNCHANGED <<softirq_raise_ts, softirq_count, irqvars, schedvars, start_map,
                   blkvars>>
    /\ ProbeFrame

(* ---- sched wake-to-run ---- *)
on_sched_wakeup(task) ==
    /\ loaded = "sched"
    /\ wake_ts' = bpf_map_update_elem(wake_ts, TidOf(task), now, MaxEntries)
    /\ UNCHANGED <<ringbuf, switch_cnt, switch_hook, irqvars, sirqvars, start_map,
                   blkvars>>
    /\ ProbeFrame

\* readable: bpf_core_read_str(&comm, ..) of next->comm succeeds
on_sched_switch(c, next, readable) ==
    /\ loaded = "sched"
    /\ switch_cnt[c] < MaxCount
    /\ switch_cnt' = [switch_cnt EXCEPT ![c] = @ + 1]
    /\ LET next_pid == TidOf(next) IN
         IF Has(wake_ts, next_pid)
         THEN /\ ringbuf' = Emit(ringbuf,
                    [type |-> "EVENT_SCHED_WAKE_RUN", ts_ns |-> now, cpu |-> c,
                     pid |-> next_pid, tgid |-> 0,
                     latency_ns |-> Sub64(now, wake_ts[next_pid]),
                     comm |-> IF readable THEN CommOf(next) ELSE ""])
              /\ wake_ts' = bpf_map_delete_elem(wake_ts, next_pid)
         ELSE UNCHANGED <<ringbuf, wake_ts>>
    /\ UNCHANGED <<switch_hook, irqvars, sirqvars, start_map, blkvars>>
    /\ ProbeFrame

(* ---- vfs_write ---- *)
vfs_write_entry(task, count, f_flags) ==
    /\ loaded = "vfs"
    /\ IF CommOf(task) # "fio"
       THEN UNCHANGED <<ringbuf, start_map>>
       ELSE /\ ringbuf' = Emit(ringbuf,
                  [type |-> "EVENT_ENTRY", ts |-> now, pid |-> TgidOf(task),
                   tid |-> TidOf(task), len |-> count, flags |-> f_flags,
                   ret |-> 0, duration_ns |-> 0, comm |-> CommOf(task)])
            /\ start_map' = bpf_map_update_elem(start_map, TidOf(task),
                  [ts |-> now, len |-> count, flags |-> f_flags,
                   comm |-> CommOf(task)], MaxEntries)
    /\ UNCHANGED <<irqvars, sirqvars, schedvars, blkvars>>
    /\ ProbeFrame

vfs_write_exit(task, ret) ==
    /\ loaded = "vfs"
    /\ IF ~Has(start_map, TidOf(task))
       THEN UNCHANGED <<ringbuf, start_map>>
       ELSE LET start == start_map[TidOf(task)] IN
              /\ ringbuf' = Emit(ringbuf,
                    [type |-> "EVENT_EXIT", ts |-> now, pid |-> TgidOf(task),
                     tid |-> TidOf(task), len |-> start.len,
                     flags |-> start.flags, ret |-> ret,
                     duration_ns |-> Sub64(now, start.ts), comm |-> start.comm])
              /\ start_map' = bpf_map_delete_elem(start_map, TidOf(task))
    /\ UNCHANGED <<irqvars, sirqvars, schedvars, blkvars>>
    /\ ProbeFrame

(* ---- block requests ---- *)
\* the devkey of a request signature: major and minor of its dev
DevKeyOf(key) == key[1]

on_rq_insert(c, key, bytes) ==
    /\ loaded = "blk"
    /\ insert_ts_map' = bpf_map_update_elem(insert_ts_map, key, now, MaxEntries)
    /\ ringbuf' = Emit(ringbuf,
          [type |-> "EVT_RQ_INSERT", ts |-> now, cpu |-> c, key |-> key,
           bytes |-> bytes, qd_cur |-> CountOf(qdepth_pc_map, c, DevKeyOf(key))])
    /\ UNCHANGED <<issue_ts_map, qdepth_pc_map, irqvars, sirqvars, schedvars,
                   start_map>>
    /\ ProbeFrame

on_rq_issue(c, key, bytes) ==
    /\ loaded = "blk"
    /\ CountOf(qdepth_pc_map, c, DevKeyOf(key)) < MaxCount
    /\ issue_ts_map' = bpf_map_update_elem(issue_ts_map, key, now, MaxEntries)
    /\ LET zeroed == IF Has(qdepth_pc_map, <<c, DevKeyOf(key)>>) THEN qdepth_pc_map
                     ELSE PerCpuUpdate(qdepth_pc_map, c, DevKeyOf(key), 0)
           qd == IF Has(zeroed, <<c, DevKeyOf(key)>>)
                 THEN [zeroed EXCEPT ![<<c, DevKeyOf(key)>>] = @ + 1]
                 ELSE zeroed IN
         /\ qdepth_pc_map' = qd
         /\ ringbuf' = Emit(ringbuf,
               [type |-> "EVT_RQ_ISSUE", ts |-> now, cpu |-> c, key |-> key,
                bytes |-> bytes, qd_cur |-> CountOf(qd, c, DevKeyOf(key))])
    /\ UNCHANGED <<insert_ts_map, irqvars, sirqvars, schedvars, start_map>>
    /\ ProbeFrame

\* faulty variant: the depth is decremented whatever its value
DecDepthUnguarded(m, dk) ==
    IF Has(m, dk) THEN [m EXCEPT ![dk] = @ - 1] ELSE m

\* on_rq_complete: pd = lookup(&qdepth_pc_map, &devkey);
\* if (pd) { if (*pd > 0) (*pd)--; }  -- dk is (this CPU, devkey)
DecDepth(m, dk) ==
    IF Has(m, dk) /\ m[dk] > 0 THEN [m EXCEPT ![dk] = @ - 1] ELSE m

\* faulty variant: the ring is reserved before the maps are cleaned, and a
\* failed reserve returns at once
RqCompleteReserveFirst(c, key, error) ==
    /\ loaded = "blk"
    /\ IF ~RingHasRoom(ringbuf)
       THEN UNCHANGED <<ringbuf, blkvars>>
       ELSE /\ ringbuf' = Append(ringbuf,
                  [type |-> "EVT_RQ_COMPLETE", ts |-> now, cpu |-> c, key |-> key,
                   bytes |-> key[3] * 512, error |-> error, lat_ns |-> 0,
                   qlat_ns |-> 0, qd_cur |-> 0])
            /\ issue_ts_map' = bpf_map_delete_elem(issue_ts_map, key)
            /\ insert_ts_map' = bpf_map_delete_elem(insert_ts_map, key)
            /\ UNCHANGED qdepth_pc_map
    /\ UNCHANGED <<irqvars, sirqvars, schedvars, start_map>>
    /\ ProbeFrame

\* *p_issue is read again after bpf_map_delete_elem(&issue_ts_map, &key): the
\* freed element holds the old timestamp unless an on_rq_issue on another CPU
\* has taken it for a timestamp of its own, which is the current time
on_rq_complete(c, key, error) ==
    /\ loaded = "blk"
    /\ LET found  == Has(issue_ts_map, key)
           lat    == IF found /\ now >= issue_ts_map[key]
                     THEN Sub64(now, issue_ts_map[key]) ELSE 0
           dk     == <<c, DevKeyOf(key)>>
           qd     == DecDepth(qdepth_pc_map, dk) IN
         /\ issue_ts_map' = bpf_map_delete_elem(issue_ts_map, key)
         /\ insert_ts_map' = bpf_map_delete_elem(insert_ts_map, key)
         /\ qdepth_pc_map' = qd
         /\ \E reread \in (IF found THEN {issue_ts_map[key], now} ELSE {0}) :
               LET qlat == IF Has(insert_ts_map, key) /\ found
                              /\ reread >= insert_ts_map[key]
                           THEN Sub64(reread, insert_ts_map[key]) ELSE 0 IN
                 ringbuf' = Emit(ringbuf,
                    [type |-> "EVT_RQ_COMPLETE", ts |-> now, cpu |-> c,
                     key |-> key, bytes |-> key[3] * 512, error |-> error,
                     lat_ns |-> lat, qlat_ns |-> qlat,
                     qd_cur |-> CountOf(qd, c, DevKeyOf(key))])
    /\ UNCHANGED <<irqvars, sirqvars, schedvars, start_map>>
    /\ ProbeFrame

NextProbe ==
    \/ \E prog \in Progs : Attach(prog)
    \/ ProbeTick
    \/ probe_ring_buffer__poll
    \/ \E c \in Cpus, irq \in Irqs : on_irq_handler_entry(c, irq)
    \/ \E c \in Cpus, irq \in Irqs : on_irq_handler_exit(c, irq)
    \/ \E c \in Cpus, vec \in Vecs : on_softirq_raise(c, vec)
    \/ \E c \in Cpus, vec \in Vecs : on_softirq_entry(c, vec)
    \/ \E c \in Cpus, vec \in Vecs : on_softirq_exit(c, vec)
    \/ \E t \in Tasks : on_sched_wakeup(t)
    \/ \E c \in Cpus, t \in Tasks, r \in BOOLEAN : on_sched_switch(c, t, r)
    \/ \E t \in Tasks, l \in WriteLens, f \in WriteFlags : vfs_write_entry(t, l, f)
    \/ \E t \in Tasks, r \in WriteRets : vfs_write_exit(t, r)
    \/ \E c \in Cpus, k \in IoKeys, b \in BlkBytes : on_rq_insert(c, k, b)
    \/ \E c \in Cpus, k \in IoKeys, b \in BlkBytes : on_rq_issue(c, k, b)
    \/ \E c \in Cpus, k \in IoKeys, e \in ErrVals : on_rq_complete(c, k, e)

SpecProbe == Init /\ [][NextProbe]_vars

(***************************************************************************)
(* The sched tracer with on_sched_switch taken step by step: the hook      *)
(* looks the wake timestamp up and reads it, then emits and deletes by     *)
(* key.  The hooks take no lock, so an on_sched_wakeup of another CPU may  *)
(* run between the two steps.                                              *)
(***************************************************************************)
\* inc_switch_count(), bpf_map_lookup_elem(&wake_ts, &next_pid) and the read
\* of *tsp into delta
on_sched_switch_lookup(c, next, readable) ==
    /\ loaded = "sched"
    /\ switch_hook = HookIdle
    /\ switch_cnt[c] < MaxCount
    /\ switch_cnt' = [switch_cnt EXCEPT ![c] = @ + 1]
    /\ LET next_pid == TidOf(next) IN
         IF Has(wake_ts, next_pid)
         THEN switch_hook' =
                 [pc |-> "found", cpu |-> c, next_pid |-> next_pid,
                  tsp |-> wake_ts[next_pid],
                  delta |-> Sub64(now, wake_ts[next_pid]),
                  comm |-> IF readable THEN CommOf(next) ELSE ""]
         ELSE UNCHANGED switch_hook
    /\ UNCHANGED <<ringbuf, wake_ts, irqvars, sirqvars, start_map, blkvars>>
    /\ ProbeFrame

\* emit_sched_event() and bpf_map_delete_elem(&wake_ts, &next_pid)
on_sched_switch_delete ==
    /\ loaded = "sched"
    /\ switch_hook # HookIdle
    /\ ringbuf' = Emit(ringbuf,
          [type |-> "EVENT_SCHED_WAKE_RUN", ts_ns |-> now,
           cpu |-> switch_hook.cpu, pid |-> switch_hook.next_pid, tgid |-> 0,
           latency_ns |-> switch_hook.delta, comm |-> switch_hook.comm])
    /\ wake_ts' = bpf_map_delete_elem(wake_ts, switch_hook.next_pid)
    /\ switch_hook' = HookIdle
    /\ UNCHANGED <<switch_cnt, irqvars, sirqvars, start_map, blkvars>>
    /\ ProbeFrame

NextSwitch ==
    \/ Attach("sched")
    \/ ProbeTick
    \/ probe_ring_buffer__poll
    \/ \E t \in Tasks : on_sched_wakeup(t)
    \/ \E c \in Cpus, t \in Tasks, r \in BOOLEAN : on_sched_switch_lookup(c, t, r)
    \/ on_sched_switch_delete

SpecSwitch == Init /\ [][NextSwitch]_vars

(***************************************************************************)
(* RFUSE tracer: records keyed by (riq_id, unique), hooks run to           *)
(* completion.                                                             *)
(***************************************************************************)
RiqIds     == {0, 1}
RfUniques  == {1}
RfOpcodes  == {5}
\* latency_ns argument of the payload-copy hooks
Latencies  == {1}

\* struct rfuse_req_key
rfuse_req_key(riq_id, unique) == <<riq_id, unique>>

\* struct rfuse_req_state zero = {};
rfuse_zero ==
    [unique |-> 0, opcode |-> 0, ts_queued_ns |-> 0, ts_dequeued_ns |-> 0,
     ts_daemon_done_ns |-> 0, ts_end_ns |-> 0, copy_from_latency_ns |-> 0,
     copy_to_latency_ns |-> 0, alloc_delay_ns |-> 0]

\* get_or_init_state() of the RFUSE tracer: the map after the helper
rfuse_get_or_init_state(m, key) ==
    IF Has(m, key) THEN m
    ELSE bpf_map_update_elem(m, key, rfuse_zero, MaxEntries)

\* the frame of an RFUSE hook that touches the records only
RfuseFrame ==
    UNCHANGED <<now, v2vars, uservars, smpvars, latvars, printed, probevars, benchvars,
                rfuse_events, rf_thread>>

\* kp_rfuse_get_req, its stores
get_req_stores(task) ==
    /\ pid_alloc_map' =
          bpf_map_update_elem(pid_alloc_map, TgidOf(task), now, MaxEntries)
    /\ UNCHANGED rfuse_states

kp_rfuse_get_req(task) ==
    /\ get_req_stores(task)
    /\ RfuseFrame

\* kp_rfuse_submit_request, its stores
submit_request_stores(opcode, unique, riq_id, task) ==
    /\ LET key == rfuse_req_key(riq_id, unique)
           pid == TgidOf(task)
           m   == rfuse_get_or_init_state(rfuse_states, key) IN
         IF ~Has(m, key)
         THEN /\ rfuse_states' = m
              /\ UNCHANGED pid_alloc_map
         ELSE LET queued == IF m[key].ts_queued_ns = 0 THEN now
                            ELSE m[key].ts_queued_ns
                  alloc  == IF Has(pid_alloc_map, pid)
                            THEN IF queued > pid_alloc_map[pid]
                                 THEN Sub64(queued, pid_alloc_map[pid])
                                 ELSE m[key].alloc_delay_ns
                            ELSE 0 IN
                /\ rfuse_states' = [m EXCEPT ![key] =
                      [@ EXCEPT !.ts_queued_ns = queued, !.opcode = opcode,
                                !.unique = unique, !.alloc_delay_ns = alloc]]
                /\ pid_alloc_map' = bpf_map_delete_elem(pid_alloc_map, pid)

kp_rfuse_submit_request(opcode, unique, riq_id, task) ==
    /\ submit_request_stores(opcode, unique, riq_id, task)
    /\ RfuseFrame

up_rfuse_read_request(opcode, unique, riq_id) ==
    /\ LET key == rfuse_req_key(riq_id, unique)
           m   == rfuse_get_or_init_state(rfuse_states, key) IN
         IF ~Has(m, key)
         THEN rfuse_states' = m
         ELSE rfuse_states' = [m EXCEPT ![key] =
                 [@ EXCEPT !.ts_dequeued_ns = IF @ = 0 THEN now ELSE @,
                           !.opcode = opcode, !.unique = unique]]
    /\ UNCHANGED pid_alloc_map
    /\ RfuseFrame

up_rfuse_copy_from_payload_begin_end(opcode, unique, riq_id, latency_ns) ==
    /\ LET key == rfuse_req_key(riq_id, unique)
           m   == rfuse_get_or_init_state(rfuse_states, key) IN
         IF ~Has(m, key)
         THEN rfuse_states' = m
         ELSE rfuse_states' = [m EXCEPT ![key] =
                 [@ EXCEPT !.copy_from_latency_ns = latency_ns,
                           !.opcode = opcode, !.unique = unique]]
    /\ UNCHANGED pid_alloc_map
    /\ RfuseFrame

up_rfuse_copy_to_payload_begin_end(opcode, unique, riq_id, latency_ns) ==
    /\ LET key == rfuse_req_key(riq_id, unique)
           m   == rfuse_get_or_init_state(rfuse_states, key) IN
         IF ~Has(m, key)
         THEN rfuse_states' = m
         ELSE rfuse_states' = [m EXCEPT ![key] =
                 [@ EXCEPT !.copy_to_latency_ns = latency_ns,
                           !.opcode = opcode, !.unique = unique]]
    /\ UNCHANGED pid_alloc_map
    /\ RfuseFrame

up_rfuse_send_result(opcode, unique, riq_id) ==
    /\ LET key == rfuse_req_key(riq_id, unique)
           m   == rfuse_get_or_init_state(rfuse_states, key) IN
         IF ~Has(m, key)
         THEN rfuse_states' = m
         ELSE rfuse_states' = [m EXCEPT ![key] =
                 [@ EXCEPT !.ts_daemon_done_ns = now,
                           !.opcode = opcode, !.unique = unique]]
    /\ UNCHANGED pid_alloc_map
    /\ RfuseFrame

\* kp_rfuse_request_end, the struct rfuse_req_event built from st, whose
\* ts_end_ns the hook has just stored; the three delays are plain unsigned
\* differences, taken whenever both timestamps are non-zero
rfuse_req_event(st, riq_id, task) ==
    [ts_ns |-> st.ts_end_ns, riq_id |-> riq_id, req_index |-> 0,
     unique |-> st.unique, opcode |-> st.opcode,
     pid |-> TgidOf(task), comm |-> CommOf(task),
     alloc_delay_ns |-> st.alloc_delay_ns,
     queue_delay_ns |->
        IF st.ts_queued_ns # 0 /\ st.ts_dequeued_ns # 0
        THEN Sub64(st.ts_dequeued_ns, st.ts_queued_ns) ELSE 0,
     daemon_delay_ns |->
        IF st.ts_dequeued_ns # 0 /\ st.ts_daemon_done_ns # 0
        THEN Sub64(st.ts_daemon_done_ns, st.ts_dequeued_ns) ELSE 0,
     response_delay_ns |->
        IF st.ts_daemon_done_ns # 0 /\ st.ts_end_ns # 0
        THEN Sub64(st.ts_end_ns, st.ts_daemon_done_ns) ELSE 0,
     copy_from_latency_ns |-> st.copy_from_latency_ns,
     copy_to_latency_ns |-> st.copy_to_latency_ns]

\* r_req: the hook's argument is a non-NULL request
kp_rfuse_request_end(r_req, unique, riq_id, task) ==
    /\ LET key == rfuse_req_key(riq_id, unique) IN
         IF ~r_req \/ ~Has(rfuse_states, key)
         THEN UNCHANGED <<rfuse_states, rfuse_events>>
         ELSE LET st == [rfuse_states[key] EXCEPT !.ts_end_ns = now] IN
                /\ IF RingHasRoom(rfuse_events)
                   THEN rfuse_events' =
                           Append(rfuse_events, rfuse_req_event(st, riq_id, task))
                   ELSE UNCHANGED rfuse_events
                /\ rfuse_states' = bpf_map_delete_elem(rfuse_states, key)
    /\ UNCHANGED <<now, v2vars, uservars, smpvars, latvars, printed, probevars, benchvars,
                   pid_alloc_map, rf_thread>>

\* ring_buffer__poll() of the RFUSE reader: the oldest event is consumed
rfuse_ring_buffer__poll ==
    /\ rfuse_events # <<>>
    /\ rfuse_events' = Tail(rfuse_events)
    /\ UNCHANGED <<now, v2vars, uservars, smpvars, latvars, printed, probevars, benchvars,
                   rfuse_states, pid_alloc_map, rf_thread>>

NextRfuse ==
    \/ Tick
    \/ \E t \in AppTasks : kp_rfuse_get_req(t)
    \/ \E op \in RfOpcodes, u \in RfUniques, q \in RiqIds, t \in AppTasks :
          kp_rfuse_submit_request(op, u, q, t)
    \/ \E op \in RfOpcodes, u \in RfUniques, q \in RiqIds :
          up_rfuse_read_request(op, u, q)
    \/ \E op \in RfOpcodes, u \in RfUniques, q \in RiqIds, l \in Latencies :
          up_rfuse_copy_from_payload_begin_end(op, u, q, l)
    \/ \E op \in RfOpcodes, u \in RfUniques, q \in RiqIds, l \in Latencies :
          up_rfuse_copy_to_payload_begin_end(op, u, q, l)
    \/ \E op \in RfOpcodes, u \in RfUniques, q \in RiqIds :
          up_rfuse_send_result(op, u, q)
    \/ \E r \in BOOLEAN, u \in RfUniques, q \in RiqIds, t \in AppTasks :
          kp_rfuse_request_end(r, u, q, t)
    \/ rfuse_ring_buffer__poll

SpecRfuse == Init /\ [][NextRfuse]_vars

(***************************************************************************)
(* User-space correlator of fuse_breakdown: one event of the ring per      *)
(* handle_event call, stitched in the pending[] array.                     *)
(***************************************************************************)
\* enum event_type
EVT_QUEUE == 0
EVT_END == 1
EVT_RECV == 2
EVT_SEND == 3
EVT_ALLOC_START == 4
EventTypes == {EVT_QUEUE, EVT_RECV, EVT_SEND, EVT_END, EVT_ALLOC_START}

\* #define MAX_PIDS
MAX_PIDS == 4194304
\* the divisor of the ns -> us conversions
NsPerUs == 1000

\* the unique values the events carry: two of them share a slot
UserKeys == 0 .. NKeys + 1
\* the send hook emits its event with opcode 0
UserOpcodes == {0, 5}

\* get_slot(): the index of the slot of a unique
get_slot(unique) == unique % MaxPending

\* whether the slot of a unique holds the record of that unique
SlotHolds(unique) ==
    /\ pending[get_slot(unique)].unique = unique
    /\ pending[get_slot(unique)].queue_ts # 0

\* the CSV row of a slot whose four timestamps are set
CsvRow(p, e) ==
    [queue_ts |-> p.queue_ts, unique |-> e.unique,
     opcode |-> IF p.opcode # 0 THEN p.opcode ELSE e.opcode,
     alloc_us |-> p.alloc_delay_ns \div NsPerUs,
     q2r_us |-> Sub64(p.recv_ts, p.queue_ts) \div NsPerUs,
     r2s_us |-> Sub64(p.send_ts, p.recv_ts) \div NsPerUs,
     s2e_us |-> Sub64(p.end_ts, p.send_ts) \div NsPerUs]

\* handle_event, the slot after the switch on e->type (the slot as it was
\* when the event is ignored)
SlotAfter(p, e) ==
    CASE e.type = EVT_QUEUE ->
           [ZeroSlot EXCEPT
              !.unique = e.unique, !.queue_ts = e.ts_ns, !.opcode = e.opcode,
              !.alloc_delay_ns =
                 IF e.pid < MAX_PIDS /\ user_pid_alloc_map[e.pid] # 0
                    /\ e.ts_ns > user_pid_alloc_map[e.pid]
                 THEN Sub64(e.ts_ns, user_pid_alloc_map[e.pid]) ELSE 0]
      [] e.type = EVT_RECV /\ p.unique = e.unique -> [p EXCEPT !.recv_ts = e.ts_ns]
      [] e.type = EVT_SEND /\ p.unique = e.unique -> [p EXCEPT !.send_ts = e.ts_ns]
      [] e.type = EVT_END /\ p.unique = e.unique  -> [p EXCEPT !.end_ts = e.ts_ns]
      [] OTHER -> p

\* handle_event: e is the struct event the BPF hook of that type has emitted
handle_event(e) ==
    /\ Len(csv) < MaxRows
    /\ IF e.type = EVT_ALLOC_START
       THEN /\ user_pid_alloc_map' =
                  IF e.pid < MAX_PIDS
                  THEN [user_pid_alloc_map EXCEPT ![e.pid] = e.ts_ns]
                  ELSE user_pid_alloc_map
            /\ UNCHANGED <<pending, csv>>
       ELSE LET i == get_slot(e.unique)
                p == SlotAfter(pending[i], e)
                ignored == e.type # EVT_QUEUE /\ pending[i].unique # e.unique
                done == p.queue_ts # 0 /\ p.recv_ts # 0 /\ p.send_ts # 0
                           /\ p.end_ts # 0 IN
              /\ user_pid_alloc_map' =
                    IF e.type = EVT_QUEUE /\ e.pid < MAX_PIDS
                    THEN [user_pid_alloc_map EXCEPT ![e.pid] = 0]
                    ELSE user_pid_alloc_map
              /\ IF ~ignored /\ done
                 THEN /\ csv' = Append(csv, CsvRow(p, e))
                      /\ pending' = [pending EXCEPT ![i] = ZeroSlot]
                 ELSE /\ UNCHANGED csv
                      /\ pending' = [pending EXCEPT ![i] = p]
    /\ UNCHANGED <<now, v2vars, rfvars, smpvars, latvars, printed, probevars, benchvars>>

\* the struct event a hook emits: its timestamp is the clock at the hook
event(type, unique, opcode, pid) ==
    [type |-> type, pid |-> pid, unique |-> unique, opcode |-> opcode,
     ts_ns |-> now]

NextUser ==
    \/ Tick
    \/ \E ty \in EventTypes, u \in UserKeys, op \in UserOpcodes, p \in UserPids :
          handle_event(event(ty, u, op, p))

SpecUser == Init /\ [][NextUser]_vars

(***************************************************************************)
(* v2 FUSE tracer with hooks running concurrently on several CPUs.  A hook *)
(* is a sequence of steps: each map helper is one step (the helpers are    *)
(* atomic under the bucket lock), the plain stores through st are one      *)
(* step, and the read-modify-write of st->flags is a load (with the plain  *)
(* stores) and a store.  st points into an element: a delete or a          *)
(* replacing update returns the element to the free list, from where a     *)
(* later update may hand it to another record, while the hook that still   *)
(* holds st keeps storing into it.                                         *)
(***************************************************************************)
SmpKeys  == 1 .. NKeys
SmpHooks == {"queue", "recv", "send", "end"}
\* the arguments the hooks are fired with
SmpOpcode == 5
SmpErr    == 0
\* hdr.error of the reply header the send hook reads (-ENOENT)
SmpSendErr == 0 - 2

\* the flag a hook sets, and the task that runs it
BitOf(hook) ==
    CASE hook = "queue" -> "QUEUE" [] hook = "recv" -> "RECV"
      [] hook = "send" -> "SEND"   [] hook = "end" -> "END"
TaskOf(hook) == IF hook \in {"recv", "send"} THEN 1 ELSE 2

\* the elements on the free list
FreeElems == ElemIds \ {htab[k] : k \in DOMAIN htab}

SmpFrame ==
    UNCHANGED <<now, req_state, wakeup_ts, rfvars, uservars, latvars, printed,
                probevars, benchvars>>

\* a hook fires on a CPU: bpf_ktime_get_ns() is read on entry (a send hook
\* that cannot read its reply header returns before it touches the map)
SmpStart(c, hook, unique) ==
    /\ cpu[c].pc \in {"idle", "done"}
    /\ runs < MaxRuns
    /\ runs' = runs + 1
    /\ cpu' = [cpu EXCEPT ![c] = [IdleCpu EXCEPT !.pc = "lookup", !.hook = hook,
                                     !.unique = unique, !.t = now]]
    /\ UNCHANGED <<htab, elems, nextGen, emits, events, wake2run_ns>>
    /\ SmpFrame

\* bpf_map_lookup_elem(&req_state, &unique), first statement of
\* get_or_init_state and of emit_req_end_and_cleanup
SmpLookup(c) ==
    /\ cpu[c].pc = "lookup"
    /\ LET u == cpu[c].unique IN
         cpu' = [cpu EXCEPT ![c] =
            IF Has(htab, u)
            THEN [@ EXCEPT !.pc = "stores", !.st = htab[u],
                           !.g = elems[htab[u]].gen]
            ELSE IF @.hook = "end"
                 THEN [@ EXCEPT !.pc = "done", !.t = 0]
                 ELSE [@ EXCEPT !.pc = "update"]]
    /\ UNCHANGED <<htab, elems, nextGen, emits, runs, events, wake2run_ns>>
    /\ SmpFrame

\* get_or_init_state: bpf_map_update_elem(&req_state, &unique, &init, BPF_ANY)
\* takes an element off the free list; a key that has an element by now gets
\* the new one and the old one goes to the free list
SmpUpdate(c) ==
    /\ cpu[c].pc = "update"
    /\ LET u == cpu[c].unique IN
         IF Has(htab, u) \/ Cardinality(DOMAIN htab) < MaxEntries
         THEN \E e \in FreeElems :
                /\ htab' = [x \in (DOMAIN htab) \cup {u} |->
                               IF x = u THEN e ELSE htab[x]]
                /\ elems' = [elems EXCEPT ![e] = [gen |-> nextGen] @@ InitState(u)]
                /\ nextGen' = nextGen + 1
         ELSE UNCHANGED <<htab, elems, nextGen>>
    /\ cpu' = [cpu EXCEPT ![c].pc = "relookup"]
    /\ UNCHANGED <<emits, runs, events, wake2run_ns>>
    /\ SmpFrame

\* get_or_init_state: return bpf_map_lookup_elem(&req_state, &unique);
SmpRelookup(c) ==
    /\ cpu[c].pc = "relookup"
    /\ LET u == cpu[c].unique IN
         cpu' = [cpu EXCEPT ![c] =
            IF Has(htab, u)
            THEN [@ EXCEPT !.pc = "stores", !.st = htab[u],
                           !.g = elems[htab[u]].gen]
            ELSE [@ EXCEPT !.pc = "done", !.t = 0]]
    /\ UNCHANGED <<htab, elems, nextGen, emits, runs, events, wake2run_ns>>
    /\ SmpFrame

\* what the hook stores through st, st->flags left as it is
StoresOf(hook, st, t) ==
    LET new == CASE hook = "queue" -> QueueStores(st, SmpOpcode, TaskOf(hook), t)
                 [] hook = "recv"  -> RecvStores(st, SmpOpcode, TaskOf(hook), t)
                 [] hook = "send"  -> SendStores(st, SmpSendErr, t)
                 [] hook = "end"   -> EndStores(st, SmpOpcode, SmpErr, t)
    IN  [new EXCEPT !.flags = st.flags]

\* the plain stores of the hook, and the load of st->flags |= ...
SmpStores(c) ==
    /\ cpu[c].pc = "stores"
    /\ elems' = [elems EXCEPT ![cpu[c].st] = StoresOf(cpu[c].hook, @, cpu[c].t)]
    /\ cpu' = [cpu EXCEPT ![c].pc = "wflags", ![c].fl = elems[cpu[c].st].flags]
    /\ UNCHANGED <<htab, nextGen, emits, runs, events, wake2run_ns>>
    /\ SmpFrame

\* the store of st->flags |= ...; up_receive_buf goes on to attach the
\* wake2run delta of its thread
SmpWflags(c) ==
    /\ cpu[c].pc = "wflags"
    /\ LET st  == cpu[c].st
           tid == TidOf(TaskOf(cpu[c].hook))
           set == [elems[st] EXCEPT !.flags = cpu[c].fl \cup {BitOf(cpu[c].hook)}] IN
         IF cpu[c].hook = "recv"
         THEN /\ elems' = [elems EXCEPT ![st] = SchedStores(set, wake2run_ns, tid)]
              /\ wake2run_ns' = bpf_map_delete_elem(wake2run_ns, tid)
         ELSE /\ elems' = [elems EXCEPT ![st] = set]
              /\ UNCHANGED wake2run_ns
    /\ cpu' = [cpu EXCEPT ![c] =
          IF @.hook = "end" THEN [@ EXCEPT !.pc = "reserve", !.fl = {}]
          ELSE [@ EXCEPT !.pc = "done", !.fl = {}, !.g = 0, !.t = 0]]
    /\ UNCHANGED <<htab, nextGen, emits, runs, events>>
    /\ SmpFrame

\* emit_req_end_and_cleanup: bpf_ringbuf_reserve, the copy out of st and
\* bpf_ringbuf_submit
SmpEmit(c) ==
    /\ cpu[c].pc = "reserve"
    /\ IF RingHasRoom(events)
       THEN /\ events' = Append(events, MakeEvent(elems[cpu[c].st]))
            /\ emits' = [emits EXCEPT ![cpu[c].g] = @ + 1]
       ELSE UNCHANGED <<events, emits>>
    /\ cpu' = [cpu EXCEPT ![c].pc = "delete"]
    /\ UNCHANGED <<htab, elems, nextGen, runs, wake2run_ns>>
    /\ SmpFrame

\* emit_req_end_and_cleanup: bpf_map_delete_elem(&req_state, &unique)
SmpDelete(c) ==
    /\ cpu[c].pc = "delete"
    /\ htab' = bpf_map_delete_elem(htab, cpu[c].unique)
    /\ cpu' = [cpu EXCEPT ![c] = [@ EXCEPT !.pc = "done", !.g = 0, !.t = 0]]
    /\ UNCHANGED <<elems, nextGen, emits, runs, events, wake2run_ns>>
    /\ SmpFrame

\* ring_buffer__poll() while hooks run
SmpPoll ==
    /\ events # <<>>
    /\ events' = Tail(events)
    /\ UNCHANGED <<cpu, htab, elems, nextGen, emits, runs, wake2run_ns>>
    /\ SmpFrame

NextSMP ==
    \/ Tick
    \/ \E c \in Cpus, h \in SmpHooks, u \in SmpKeys : SmpStart(c, h, u)
    \/ \E c \in Cpus : SmpLookup(c)
    \/ \E c \in Cpus : SmpUpdate(c)
    \/ \E c \in Cpus : SmpRelookup(c)
    \/ \E c \in Cpus : SmpStores(c)
    \/ \E c \in Cpus : SmpWflags(c)
    \/ \E c \in Cpus : SmpEmit(c)
    \/ \E c \in Cpus : SmpDelete(c)
    \/ SmpPoll

SpecSMP == Init /\ [][NextSMP]_vars

(***************************************************************************)
(* RFUSE tracer with several threads of one process submitting requests:   *)
(* a thread calls rfuse_get_req and then rfuse_submit_request for the      *)
(* request it got; the threads run these calls in any order.               *)
(***************************************************************************)
AllocFrame ==
    UNCHANGED <<now, v2vars, uservars, smpvars, latvars, printed, probevars, benchvars,
                rfuse_events>>

\* thread t enters rfuse_get_req: kp_rfuse_get_req fires
thread_get_req(t) ==
    /\ rf_thread[t].pc = "idle"
    /\ get_req_stores(t)
    /\ rf_thread' = [rf_thread EXCEPT ![t] = [pc |-> "allocated", ts |-> now]]
    /\ AllocFrame

\* thread t submits the request it got: kp_rfuse_submit_request fires
thread_submit_request(opcode, unique, riq_id, t) ==
    /\ rf_thread[t].pc = "allocated"
    /\ ~Has(rfuse_states, rfuse_req_key(riq_id, unique))
    /\ submit_request_stores(opcode, unique, riq_id, t)
    /\ rf_thread' = [rf_thread EXCEPT ![t] = ThreadIdle]
    /\ AllocFrame

\* the request ends in the context of thread t
thread_request_end(unique, riq_id, t) ==
    /\ LET key == rfuse_req_key(riq_id, unique) IN
         IF ~Has(rfuse_states, key)
         THEN UNCHANGED <<rfuse_states, rfuse_events>>
         ELSE LET st == [rfuse_states[key] EXCEPT !.ts_end_ns = now] IN
                /\ rfuse_events' = Emit(rfuse_events, rfuse_req_event(st, riq_id, t))
                /\ rfuse_states' = bpf_map_delete_elem(rfuse_states, key)
    /\ UNCHANGED <<now, v2vars, uservars, smpvars, latvars, printed, probevars, benchvars,
                   pid_alloc_map, rf_thread>>

NextAlloc ==
    \/ Tick
    \/ \E t \in AppThreads : thread_get_req(t)
    \/ \E op \in RfOpcodes, u \in RfUniques, q \in RiqIds, t \in AppThreads :
          thread_submit_request(op, u, q, t)
    \/ \E u \in RfUniques, q \in RiqIds, t \in AppThreads :
          thread_request_end(u, q, t)
    \/ rfuse_ring_buffer__poll

SpecAlloc == Init /\ [][NextAlloc]_vars

(***************************************************************************)
(* The multithreaded write benchmarks: main() creates the workers, waits   *)
(* on the ready gate until each has opened its file, and opens the start   *)
(* gate; a worker writes only after start_gate_wait() has returned.  The   *)
(* threads run in any order, one step at a time; a step is a lock, the     *)
(* code under a lock, or a system call.  A mutex is locked or not; a       *)
(* thread inside pthread_cond_wait() holds no mutex and may wake at any    *)
(* time, woken or not.                                                     *)
(***************************************************************************)
BenchFrame ==
    UNCHANGED <<now, v2vars, rfvars, uservars, smpvars, latvars, printed, probevars>>

\* pthread_create(): the worker starts, or the call fails and main() sets
\* g_stop and goes on to open the start gate for the workers it has
main_pthread_create(rc) ==
    /\ main.pc = "create"
    /\ IF rc = 0
       THEN LET n == main.created + 1 IN
              /\ writer' = [writer EXCEPT ![main.created].pc = "open"]
              /\ main' = [main EXCEPT !.created = n,
                             !.pc = IF n = NumThreads THEN "ready_lock" ELSE "create"]
              /\ UNCHANGED g_stop
       ELSE /\ g_stop' = 1
            /\ main' = [main EXCEPT !.failed = TRUE, !.pc = "broadcast_lock"]
            /\ UNCHANGED writer
    /\ UNCHANGED <<start_gate, ready_gate>>
    /\ BenchFrame

\* ready_gate_wait_all(): pthread_mutex_lock(), and the return of
\* pthread_cond_wait(), which takes the mutex again
ready_gate_wait_all_lock ==
    /\ main.pc = "ready_lock"
    /\ ~ready_gate.mtx
    /\ ready_gate' = [ready_gate EXCEPT !.mtx = TRUE]
    /\ main' = [main EXCEPT !.pc = "ready_check"]
    /\ UNCHANGED <<start_gate, g_stop, writer>>
    /\ BenchFrame

\* ready_gate_wait_all(): the test of the loop; main() either waits on the
\* condition variable, which unlocks the mutex, or unlocks it and returns
ready_gate_wait_all_check ==
    /\ main.pc = "ready_check"
    /\ ready_gate' = [ready_gate EXCEPT !.mtx = FALSE]
    /\ main' = [main EXCEPT !.pc = IF ready_gate.ready < NumThreads
                                   THEN "ready_waiting" ELSE "broadcast_lock"]
    /\ UNCHANGED <<start_gate, g_stop, writer>>
    /\ BenchFrame

\* pthread_cond_wait() of main() wakes without a signal
ready_gate_spurious_wakeup ==
    /\ main.pc = "ready_waiting"
    /\ main' = [main EXCEPT !.pc = "ready_lock"]
    /\ UNCHANGED <<start_gate, ready_gate, g_stop, writer>>
    /\ BenchFrame

\* start_gate_broadcast(): pthread_mutex_lock()
start_gate_broadcast_lock ==
    /\ main.pc = "broadcast_lock"
    /\ ~start_gate.mtx
    /\ start_gate' = [start_gate EXCEPT !.mtx = TRUE]
    /\ main' = [main EXCEPT !.pc = "broadcast"]
    /\ UNCHANGED <<ready_gate, g_stop, writer>>
    /\ BenchFrame

\* start_gate_broadcast(): started = 1 and pthread_cond_broadcast(), which
\* wakes every worker that waits on the condition variable
start_gate_broadcast ==
    /\ main.pc = "broadcast"
    /\ start_gate' = [start_gate EXCEPT !.started = 1]
    /\ writer' = [t \in Tids |->
                    IF writer[t].pc = "start_waiting"
                    THEN [writer[t] EXCEPT !.pc = "start_lock"]
                    ELSE writer[t]]
    /\ main' = [main EXCEPT !.pc = "broadcast_unlock"]
    /\ UNCHANGED <<ready_gate, g_stop>>
    /\ BenchFrame

\* start_gate_broadcast(): pthread_mutex_unlock(); main() goes on to join
\* the workers it has created
start_gate_broadcast_unlock ==
    /\ main.pc = "broadcast_unlock"
    /\ start_gate' = [start_gate EXCEPT !.mtx = FALSE]
    /\ main' = [main EXCEPT !.pc = IF main.created = 0 THEN "done" ELSE "join"]
    /\ UNCHANGED <<ready_gate, g_stop, writer>>
    /\ BenchFrame

\* pthread_join() of the next worker returns once that worker has returned
main_pthread_join ==
    /\ main.pc = "join"
    /\ writer[main.joined].pc = "returned"
    /\ LET n == main.joined + 1 IN
         main' = [main EXCEPT !.joined = n,
                     !.pc = IF n = main.created THEN "done" ELSE "join"]
    /\ UNCHANGED <<start_gate, ready_gate, g_stop, writer>>
    /\ BenchFrame

\* writer_thread(): open() and the preparation of the buffer; either may
\* fail, and the worker then only reports itself ready and returns
writer_open(t, ok) ==
    /\ writer[t].pc = "open"
    /\ writer' = [writer EXCEPT ![t].pc = "signal_lock", ![t].ok = ok]
    /\ UNCHANGED <<start_gate, ready_gate, g_stop, main>>
    /\ BenchFrame

\* ready_gate_signal_ready(): pthread_mutex_lock()
ready_gate_signal_ready_lock(t) ==
    /\ writer[t].pc = "signal_lock"
    /\ ~ready_gate.mtx
    /\ ready_gate' = [ready_gate EXCEPT !.mtx = TRUE]
    /\ writer' = [writer EXCEPT ![t].pc = "signal_ready"]
    /\ UNCHANGED <<start_gate, g_stop, main>>
    /\ BenchFrame

\* ready_gate_signal_ready(): ready++, pthread_cond_signal() once all are
\* ready, pthread_mutex_unlock(); a worker whose preparation failed returns
ready_gate_signal_ready(t) ==
    /\ writer[t].pc = "signal_ready"
    /\ LET n == ready_gate.ready + 1 IN
         /\ ready_gate' = [mtx |-> FALSE, ready |-> n]
         /\ main' = IF n >= NumThreads /\ main.pc = "ready_waiting"
                    THEN [main EXCEPT !.pc = "ready_lock"]
                    ELSE main
    /\ writer' = [writer EXCEPT ![t].pc = IF writer[t].ok THEN "start_lock"
                                           ELSE "returned"]
    /\ UNCHANGED <<start_gate, g_stop>>
    /\ BenchFrame

\* start_gate_wait(): pthread_mutex_lock(), and the return of
\* pthread_cond_wait(), which takes the mutex again
start_gate_wait_lock(t) ==
    /\ writer[t].pc = "start_lock"
    /\ ~start_gate.mtx
    /\ start_gate' = [start_gate EXCEPT !.mtx = TRUE]
    /\ writer' = [writer EXCEPT ![t].pc = "start_check"]
    /\ UNCHANGED <<ready_gate, g_stop, main>>
    /\ BenchFrame

\* faulty variant: start_gate_wait() returns without testing started
StartGateWaitUntested(t) ==
    /\ writer[t].pc = "start_check"
    /\ start_gate' = [start_gate EXCEPT !.mtx = FALSE]
    /\ writer' = [writer EXCEPT ![t].pc = "loop"]
    /\ UNCHANGED <<ready_gate, g_stop, main>>
    /\ BenchFrame

\* start_gate_wait(): the test of the loop; the worker either waits on the
\* condition variable, which unlocks the mutex, or unlocks it and returns
start_gate_wait_check(t) ==
    /\ writer[t].pc = "start_check"
    /\ start_gate' = [start_gate EXCEPT !.mtx = FALSE]
    /\ writer' = [writer EXCEPT ![t].pc = IF start_gate.started = 0
                                           THEN "start_waiting" ELSE "loop"]
    /\ UNCHANGED <<ready_gate, g_stop, main>>
    /\ BenchFrame

\* pthread_cond_wait() of a worker wakes without a broadcast
start_gate_spurious_wakeup(t) ==
    /\ writer[t].pc = "start_waiting"
    /\ writer' = [writer EXCEPT ![t].pc = "start_lock"]
    /\ UNCHANGED <<start_gate, ready_gate, g_stop, main>>
    /\ BenchFrame

\* one turn of the write loop: pwrite() writes the whole block (ops++) or
\* not (err++, not kept)
writer_pwrite(t, full) ==
    /\ writer[t].pc = "loop"
    /\ g_stop = 0
    /\ writer[t].ops < OpsPerThread
    /\ writer' = [writer EXCEPT ![t].io = TRUE,
                                ![t].ops = IF full THEN @ + 1 ELSE @]
    /\ UNCHANGED <<start_gate, ready_gate, g_stop, main>>
    /\ BenchFrame

\* the write loop ends: g_stop is set or the worker has done its writes
writer_return(t) ==
    /\ writer[t].pc = "loop"
    /\ g_stop # 0 \/ writer[t].ops >= OpsPerThread
    /\ writer' = [writer EXCEPT ![t].pc = "returned"]
    /\ UNCHANGED <<start_gate, ready_gate, g_stop, main>>
    /\ BenchFrame

NextGate ==
    \/ \E rc \in CreateRcs : main_pthread_create(rc)
    \/ ready_gate_wait_all_lock
    \/ ready_gate_wait_all_check
    \/ ready_gate_spurious_wakeup
    \/ start_gate_broadcast_lock
    \/ start_gate_broadcast
    \/ start_gate_broadcast_unlock
    \/ main_pthread_join
    \/ \E t \in Tids, ok \in BOOLEAN : writer_open(t, ok)
    \/ \E t \in Tids : ready_gate_signal_ready_lock(t)
    \/ \E t \in Tids : ready_gate_signal_ready(t)
    \/ \E t \in Tids : start_gate_wait_lock(t)
    \/ \E t \in Tids : start_gate_wait_check(t)
    \/ \E t \in Tids : start_gate_spurious_wakeup(t)
    \/ \E t \in Tids, full \in BOOLEAN : writer_pwrite(t, full)
    \/ \E t \in Tids : writer_return(t)

SpecGate == Init /\ [][NextGate]_vars

(***************************************************************************)
(* Claims settled against the v2 tracer with hooks run to completion.      *)
(***************************************************************************)
\* the phases of the v2 tracer and the timestamp field of each
Phases == {"QUEUE", "RECV", "SEND", "END"}
TsOf(st, phase) ==
    CASE phase = "QUEUE" -> st.ts_queue_ns
      [] phase = "RECV"  -> st.ts_recv_ns
      [] phase = "SEND"  -> st.ts_send_ns
      [] phase = "END"   -> st.ts_end_ns

\* C3 (as claimed): once a timestamp has been recorded for a (key, phase) of
\* an in-flight record, no later mark changes it while the record stays in
\* the table: a second mark of the same phase leaves the first value.
CxC3_FirstWriteWins ==
    [][\A u \in Keys :
          (Has(req_state, u) /\ Has(req_state', u)) =>
             \A ph \in Phases :
                ph \in req_state[u].flags =>
                   TsOf(req_state'[u], ph) = TsOf(req_state[u], ph)]_vars

FreshRecord(st) ==
    /\ Cardinality(st.flags \cap {"QUEUE", "RECV", "SEND"}) = 1
    /\ "END" \notin st.flags
    /\ \A ph \in Phases : ph \notin st.flags => TsOf(st, ph) = 0
    /\ "QUEUE" \notin st.flags => st.k_tid = 0 /\ st.k_cpu = 0 /\ st.k_comm = ""
    /\ "RECV" \notin st.flags => st.d_tid = 0 /\ st.d_tgid = 0 /\ st.d_cpu = 0
                                  /\ st.d_comm = ""
    /\ "SEND" \notin st.flags => st.err = 0
    /\ "SEND" \in st.flags => st.opcode = 0
    /\ "SCHED" \notin st.flags => st.sched_delay_ns = 0

\* C5: right after a terminal mark has emitted, the key has no record, and
\* the next mark with that key value starts from an empty record: the record
\* it creates holds only what that one mark stores, nothing of the retired
\* record.
ThmC5_FreshAfterRetire ==
    [][\A u \in Keys :
          /\ (Has(req_state, u) /\ Len(events') > Len(events)
                /\ events'[Len(events')].unique = u) => ~Has(req_state', u)
          /\ (~Has(req_state, u) /\ Has(req_state', u))
                => FreshRecord(req_state'[u])]_vars

\* C5 witness: the event of a retired record is still in the ring while a
\* later mark has already started a new record under the same key value.
WitC5_KeyReused ==
    \E u \in Keys, i \in 1 .. Len(events) :
       /\ events[i].unique = u
       /\ events[i].flags = Phases
       /\ Has(req_state, u)
       /\ req_state[u].flags = {"SEND"}

StaleAge == 1

\* the oldest timestamp a record holds
OldestTs(st) ==
    LET seen == {TsOf(st, ph) : ph \in st.flags \cap Phases}
    IN  IF seen = {} THEN now ELSE CHOOSE t \in seen : \A x \in seen : t <= x

\* C7 (as claimed): a record whose terminal phase never fires is retired by
\* the sweep once its oldest timestamp is StaleAge old: no record of that age
\* is left in the table.
CxC7_StaleRetired ==
    \A u \in DOMAIN req_state : now - OldestTs(req_state[u]) < StaleAge

\* C8: in every reachable state the number of in-flight records is at most
\* the capacity of the table.
ThmC8_TableBounded == Cardinality(DOMAIN req_state) <= MaxEntries

\* C8 witness: the table is full and a further key has no record, so that a
\* first mark for that key leaves the table as it is.
WitC8_TableFull ==
    /\ Cardinality(DOMAIN req_state) = MaxEntries
    /\ \E u \in Keys \ DOMAIN req_state :
          ENABLED (kp_trace_fuse_queue_request(5, u, 2) /\ UNCHANGED req_state)


(***************************************************************************)
(* Claims settled against the RFUSE tracer, the user-space correlator and  *)
(* the v2 tracer with concurrent hooks.                                    *)
(***************************************************************************)
\* an unsigned word read as a signed one
AsSigned(x) == IF x >= WordMod \div 2 THEN x - WordMod ELSE x

\* C1 (as claimed): every derived duration of every emitted event is absent
\* (0 in an RFUSE event) or the difference of its two timestamps and >= 0;
\* it is never a negative or wrapped-around number.
CxC1_NoWrappedDuration ==
    \A i \in 1 .. Len(rfuse_events) :
       /\ AsSigned(rfuse_events[i].queue_delay_ns) >= 0
       /\ AsSigned(rfuse_events[i].daemon_delay_ns) >= 0
       /\ AsSigned(rfuse_events[i].response_delay_ns) >= 0

\* C2 (as claimed): for any interleaving of the hooks, each in-flight record
\* produces at most one event.
CxC2_AtMostOneEvent == \A g \in DOMAIN emits : emits[g] <= 1

\* C9 (as claimed): two concurrent marks on one key leave the record that
\* some serial order of the two leaves; when two non-terminal hooks are all
\* that ever ran, both ran on the same key and both obtained the record,
\* every serial order leaves a record that carries the flags of both.
CxC9_MarksSerializable ==
    \A c1, c2 \in Cpus :
       (/\ c1 # c2
        /\ runs = 2
        /\ cpu[c1].pc = "done" /\ cpu[c2].pc = "done"
        /\ cpu[c1].unique = cpu[c2].unique
        /\ cpu[c1].hook # "end" /\ cpu[c2].hook # "end"
        /\ cpu[c1].st # 0 /\ cpu[c2].st # 0)
       => /\ Has(htab, cpu[c1].unique)
          /\ {BitOf(cpu[c1].hook), BitOf(cpu[c2].hook)}
                \subseteq elems[htab[cpu[c1].unique]].flags

\* C10 (as claimed): an event of one unique never changes or discards the
\* record the correlator holds for another unique.
CxC10_KeysIndependent ==
    [][\A ty \in EventTypes, u \in UserKeys, op \in UserOpcodes, p \in UserPids :
          handle_event(event(ty, u, op, p)) =>
             \A v \in UserKeys \ {u} :
                SlotHolds(v) => pending'[get_slot(v)] = pending[get_slot(v)]]_vars

\* C11 (as claimed): a record is retired exactly once, by its terminal mark or
\* by the sweep, whichever comes first, even when both run at the same time:
\* a record that is still in the table is not yet StaleAge old, and a record
\* that has left the table has been emitted at most once.
CxC11_SweepRetiresOnce ==
    \A g \in 1 .. (nextGen - 1) :
       IF \E u \in DOMAIN htab : elems[htab[u]].gen = g
       THEN \A u \in DOMAIN htab :
               elems[htab[u]].gen = g =>
                  now - OldestTs(elems[htab[u]]) < StaleAge
       ELSE emits[g] <= 1

\* C12: when the ring has no room for the event of a request end, the record
\* is retired all the same: the key is absent afterwards, every other record
\* is as it was, and the ring is as it was.
ThmC12_RetiredWhenRingFull ==
    \A op \in Opcodes, u \in Keys, e \in ErrVals :
       (Has(req_state, u) /\ ~RingHasRoom(events)) =>
          ~ENABLED (/\ kp_trace_fuse_request_end(op, u, e)
                    /\ ~(/\ req_state' = bpf_map_delete_elem(req_state, u)
                         /\ ~Has(req_state', u)
                         /\ events' = events))

\* C12 witness: a record is in flight while the ring is full, and a request
\* end for its key leaves the key absent and the ring as it was.
WitC12_EndOnFullRing ==
    \E u \in Keys :
       /\ Has(req_state, u)
       /\ "QUEUE" \in req_state[u].flags
       /\ ~RingHasRoom(events)
       /\ ENABLED (/\ kp_trace_fuse_request_end(5, u, 0)
                   /\ ~Has(req_state', u)
                   /\ events' = events)

\* a map at its capacity that holds no record for the key
TableFullFor(u) == Cardinality(DOMAIN req_state) = MaxEntries /\ ~Has(req_state, u)

Computed(e, fa, fb, ta, tb) == fa \in e.flags /\ fb \in e.flags /\ tb >= ta

\* C14 (as claimed): a duration that was not computed is reported as absent,
\* not as 0: the duration field of an event that misses an endpoint does not
\* hold 0.
CxC14_AbsentNotZero ==
    \A i \in 1 .. Len(events) :
       LET e == events[i] IN
         /\ ~Computed(e, "QUEUE", "RECV", e.ts_queue_ns, e.ts_recv_ns)
               => e.queuing_ns # 0
         /\ ~Computed(e, "RECV", "SEND", e.ts_recv_ns, e.ts_send_ns)
               => e.daemon_ns # 0
         /\ ~Computed(e, "SEND", "END", e.ts_send_ns, e.ts_end_ns)
               => e.response_ns # 0

\* C14 (amended): the duration field holds 0 both when the duration was not
\* computed and when it is a computed 0; the event's flags and raw timestamps
\* tell the two apart: the field holds the difference of the two timestamps
\* exactly when both flags are set and the later timestamp is not the smaller
\* one, and 0 otherwise.
ThmC14_FlagsTellAbsent ==
    \A i \in 1 .. Len(events) :
       LET e == events[i] IN
         /\ e.queuing_ns =
               IF Computed(e, "QUEUE", "RECV", e.ts_queue_ns, e.ts_recv_ns)
               THEN e.ts_recv_ns - e.ts_queue_ns ELSE 0
         /\ e.daemon_ns =
               IF Computed(e, "RECV", "SEND", e.ts_recv_ns, e.ts_send_ns)
               THEN e.ts_send_ns - e.ts_recv_ns ELSE 0
         /\ e.response_ns =
               IF Computed(e, "SEND", "END", e.ts_send_ns, e.ts_end_ns)
               THEN e.ts_end_ns - e.ts_send_ns ELSE 0

\* C14 witness: an event whose queue and receive marks carry equal timestamps
\* (queuing 0, computed) and whose send mark is missing (daemon 0, absent).
WitC14_ZeroAndAbsent ==
    \E i \in 1 .. Len(events) :
       /\ {"QUEUE", "RECV"} \subseteq events[i].flags
       /\ events[i].ts_queue_ns = events[i].ts_recv_ns
       /\ events[i].queuing_ns = 0
       /\ "SEND" \notin events[i].flags
       /\ events[i].ts_recv_ns > 0
       /\ events[i].daemon_ns = 0

\* the record of request 42 after its queue, receive and send marks at 1000,
\* 1500 and 4000, with the clock at 4200 and nothing in the ring
RunMarked ==
    /\ Has(req_state, 42)
    /\ req_state[42].flags = {"QUEUE", "RECV", "SEND"}
    /\ req_state[42].ts_queue_ns = 1000
    /\ req_state[42].ts_recv_ns = 1500
    /\ req_state[42].ts_send_ns = 4000
    /\ now = 4200
    /\ events = <<>>

\* the event of the run: all three durations computed, 500, 2500 and 200
RunEvent(e) ==
    /\ e.unique = 42
    /\ e.queuing_ns = 500 /\ e.daemon_ns = 2500 /\ e.response_ns = 200
    /\ Computed(e, "QUEUE", "RECV", e.ts_queue_ns, e.ts_recv_ns)
    /\ Computed(e, "RECV", "SEND", e.ts_recv_ns, e.ts_send_ns)
    /\ Computed(e, "SEND", "END", e.ts_send_ns, e.ts_end_ns)

\* C15: after the marks (42, queue, 1000), (42, receive, 1500) and
\* (42, send, 4000), the terminal mark at 4200 emits exactly one event, with
\* queuing 500, daemon time 2500 and response time 200, all computed, and
\* retires the record.
ThmC15_RunDurations ==
    RunMarked =>
       \A op \in RunOpcodes, e \in ErrVals :
          ~ENABLED (/\ kp_trace_fuse_request_end(op, 42, e)
                    /\ ~(/\ Len(events') = 1
                         /\ RunEvent(events'[1])
                         /\ ~Has(req_state', 42)))

\* C15 witness: the terminal mark at 4200 has acted on the marked record: the
\* ring holds the one event of request 42 with the four timestamps, and the
\* record is gone.
WitC15_RunEmitted ==
    /\ Len(events) = 1
    /\ events[1].unique = 42
    /\ events[1].ts_queue_ns = 1000 /\ events[1].ts_recv_ns = 1500
    /\ events[1].ts_send_ns = 4000 /\ events[1].ts_end_ns = 4200
    /\ RunEvent(events[1])
    /\ ~Has(req_state, 42)

\* C16 (as claimed): a mark for a key that has no record creates the record
\* whichever phase it carries: while the table has room, the dequeue mark of
\* the request-latency tracer on a nonzero key without a record leaves a record
\* of that key behind, as its queue mark does.
CxC16_AnyPhaseCreates ==
    \A u \in Keys \ {0} :
       (~Has(lat_req_state, u) /\ Cardinality(DOMAIN lat_req_state) < MaxEntries)
          => ~ENABLED (/\ kprobe_fuse_copy_args(TRUE, u)
                       /\ ~Has(lat_req_state', u))

\* C17 (as claimed): a mark of a non-terminal phase produces no external
\* output: no queue, receive, send or allocation event makes the user-space
\* correlator write a CSV row.
CxC17_NonTerminalSilent ==
    \A ty \in EventTypes \ {EVT_END}, u \in UserKeys, op \in UserOpcodes,
       p \in UserPids :
       ~ENABLED (/\ handle_event(event(ty, u, op, p))
                 /\ csv' # csv)

CxC19_ZeroKeyRejected ==
    LET touched == req_state' # req_state \/ events' # events IN
      /\ \A op \in Opcodes, t \in AppTasks :
            ~ENABLED (kp_trace_fuse_queue_request(op, 0, t) /\ touched)
      /\ \A op \in Opcodes, t \in DaemonTasks :
            ~ENABLED (up_receive_buf(op, 0, t) /\ touched)
      /\ \A e \in ErrVals :
            ~ENABLED (up_fuse_send_msg(TRUE, 0, e) /\ touched)
      /\ \A op \in Opcodes, e \in ErrVals :
            ~ENABLED (kp_trace_fuse_request_end(op, 0, e) /\ touched)

\* C20 (as claimed): there is no completed resting state: a hook that is about
\* to look up the record of its key never finds in the table a record whose
\* terminal phase has been recorded.
CxC20_NoCompletedRecord ==
    \A c \in Cpus :
       (cpu[c].pc = "lookup" /\ Has(htab, cpu[c].unique))
          => "END" \notin elems[htab[cpu[c].unique]].flags

\* C21 (as claimed): a record that is evicted is handed to the consumer as an
\* event that carries the incomplete/evicted marker: for every record that has
\* reached the staleness age, the ring holds such an event of its key.
CxC21_EvictedMarked ==
    \A u \in DOMAIN req_state :
       now - OldestTs(req_state[u]) >= StaleAge
          => \E i \in 1 .. Len(events) :
                /\ events[i].unique = u
                /\ "EVICTED" \in events[i].flags

\* C22 (as claimed): data is never dropped without a signal: a record that was
\* created ends in an event seen by the consumer, so no request-end hook
\* removes a record from the table without handing an event to the ring.
CxC22_NoSilentDrop ==
    \A op \in Opcodes, u \in DOMAIN req_state, e \in ErrVals :
       ~ENABLED (/\ kp_trace_fuse_request_end(op, u, e)
                 /\ ~Has(req_state', u)
                 /\ events' = events)

\* C23 (as claimed): a non-terminal hook that runs after the request-end hook
\* of its request does not leave a record behind: once the event of a unique is
\* in the ring and its record is gone, the send hook of that unique leaves the
\* table without a record of it.
CxC23_LateHookLeavesNothing ==
    \A u \in Keys, e \in ErrVals :
       (/\ ~Has(req_state, u)
        /\ \E i \in 1 .. Len(events) : events[i].unique = u)
          => ~ENABLED (/\ up_fuse_send_msg(TRUE, u, e)
                       /\ Has(req_state', u))

\* C24 (as claimed): the err of an emitted event is the value passed to the
\* request-end hook, whatever the interleaving of the send hook and the
\* request-end hook of the unique: no event carries the send hook's error.
CxC24_EndErrWins ==
    \A i \in 1 .. Len(events) : events[i].err = SmpErr

ThmC26_ExitHookCleans ==
    /\ \A c \in Cpus, k \in IoKeys, e \in ErrVals :
          ~ENABLED (/\ on_rq_complete(c, k, e)
                    /\ (Has(insert_ts_map', k) \/ Has(issue_ts_map', k)))
    /\ \A t \in Tasks, r \in WriteRets :
          ~ENABLED (vfs_write_exit(t, r) /\ Has(start_map', TidOf(t)))
    /\ \A c \in Cpus, irq \in Irqs :
          ~ENABLED (on_irq_handler_exit(c, irq) /\ Has(irq_entry_ts', <<c, irq>>))

\* a completion finds both timestamps of its request while the ring is full,
\* emits nothing and leaves both maps without the request
WitC26_FullRingCompletion ==
    \E c \in Cpus, k \in IoKeys, e \in ErrVals :
       /\ ~RingHasRoom(ringbuf)
       /\ Has(insert_ts_map, k) /\ Has(issue_ts_map, k)
       /\ ENABLED (/\ on_rq_complete(c, k, e)
                   /\ ringbuf' = ringbuf
                   /\ ~Has(insert_ts_map', k) /\ ~Has(issue_ts_map', k))

\* C27: a wake-to-run delta of a daemon thread is consumed one-shot.  Only a
\* receive by that thread takes the delta out of wake2run_ns, and it does so
\* in the step that attaches it: the delta then sits in exactly the record of
\* the received request, no other record changes its sched_delay_ns, and no
\* record gets a delay in a step that leaves wake2run_ns as it was.
ThmC27_DeltaOneShot ==
    [][\A t \in DaemonTasks :
          LET tid == TidOf(t)
              got == {u \in DOMAIN req_state' :
                         \/ ~Has(req_state, u) /\ "SCHED" \in req_state'[u].flags
                         \/ /\ Has(req_state, u)
                            /\ \/ "SCHED" \in req_state'[u].flags \ req_state[u].flags
                               \/ req_state'[u].sched_delay_ns
                                     # req_state[u].sched_delay_ns} IN
            /\ (Has(wake2run_ns, tid) /\ ~Has(wake2run_ns', tid))
                  => \E u \in DOMAIN req_state' :
                        /\ got \subseteq {u}
                        /\ "SCHED" \in req_state'[u].flags
                        /\ req_state'[u].sched_delay_ns = wake2run_ns[tid]
                        /\ req_state'[u].d_tid = tid
                        /\ req_state'[u].ts_recv_ns = now
            /\ got # {} => Has(wake2run_ns, tid) /\ ~Has(wake2run_ns', tid)
            /\ (\E op \in SchedOpcodes, u \in Keys : up_receive_buf(op, u, t))
                  => \/ ~Has(wake2run_ns', tid)
                     \/ wake2run_ns' = wake2run_ns /\ got = {}]_vars

\* an emitted request carries the delta of its receive, wake2run_ns no longer
\* holds it, and the next request received by the same thread carries none
WitC27_SecondReceiveWithout ==
    \E i \in 1 .. Len(events), v \in DOMAIN req_state :
       /\ events[i].unique # v
       /\ "SCHED" \in events[i].flags /\ events[i].sched_delay_ns > 0
       /\ "RECV" \in req_state[v].flags /\ "SCHED" \notin req_state[v].flags
       /\ req_state[v].d_tid = events[i].d_tid
       /\ ~Has(wake2run_ns, req_state[v].d_tid)

\* C28: the entry an on_sched_switch deletes is the one whose timestamp
\* produced the delta it reports: no wake timestamp recorded while the hook
\* runs is deleted by it.
CxC28_DeletesWhatItMeasured ==
    switch_hook # HookIdle
       => ~ENABLED (/\ on_sched_switch_delete
                    /\ Has(wake_ts, switch_hook.next_pid)
                    /\ wake_ts[switch_hook.next_pid] # switch_hook.tsp
                    /\ ~Has(wake_ts', switch_hook.next_pid))

\* C29: in the hard IRQ, softirq, sched and vfs_write tracers a recorded start
\* timestamp yields at most one latency event: the hook that measures from an
\* entry leaves the map without it, and a hook that finds no entry of its key
\* leaves the ring as it was.
ThmC29_OneEventPerStart ==
    /\ \A c \in Cpus, irq \in Irqs :
          ~ENABLED (/\ on_irq_handler_exit(c, irq)
                    /\ \/ Has(irq_entry_ts', <<c, irq>>)
                       \/ ~Has(irq_entry_ts, <<c, irq>>) /\ ringbuf' # ringbuf)
    /\ \A c \in Cpus, vec \in Vecs :
          /\ ~ENABLED (/\ on_softirq_exit(c, vec)
                       /\ \/ Has(softirq_entry_ts', <<c, vec>>)
                          \/ ~Has(softirq_entry_ts, <<c, vec>>) /\ ringbuf' # ringbuf)
          /\ ~ENABLED (/\ on_softirq_entry(c, vec)
                       /\ \/ Has(softirq_raise_ts', <<c, vec>>)
                          \/ ~Has(softirq_raise_ts, <<c, vec>>) /\ ringbuf' # ringbuf)
    /\ \A c \in Cpus, t \in Tasks, r \in BOOLEAN :
          ~ENABLED (/\ on_sched_switch(c, t, r)
                    /\ \/ Has(wake_ts', TidOf(t))
                       \/ ~Has(wake_ts, TidOf(t)) /\ ringbuf' # ringbuf)
    /\ \A t \in Tasks, r \in WriteRets :
          ~ENABLED (/\ vfs_write_exit(t, r)
                    /\ \/ Has(start_map', TidOf(t))
                       \/ ~Has(start_map, TidOf(t)) /\ ringbuf' # ringbuf)

\* an interrupt has been counted and its entry timestamp recorded, the ring
\* has room: the exit emits one latency event and leaves no entry, so that
\* the exit after it finds none
WitC29_ExitEmitsAndDeletes ==
    \E c \in Cpus, irq \in Irqs :
       /\ Has(irq_entry_ts, <<c, irq>>) /\ CountOf(irq_count, c, irq) > 0
       /\ RingHasRoom(ringbuf)
       /\ ENABLED (/\ on_irq_handler_exit(c, irq)
                   /\ Len(ringbuf') = Len(ringbuf) + 1
                   /\ ringbuf'[Len(ringbuf')].type = "EVENT_IRQ_LATENCY"
                   /\ ~Has(irq_entry_ts', <<c, irq>>))

\* C30: in every emitted event a SEEN_QUEUE / SEEN_RECV / SEEN_SEND flag is
\* set exactly when the hook of that phase fired for the unique during the
\* life of the emitted record.  When one record is all the table ever held and
\* a hook has run to its end with a pointer to it, the event that a request
\* end is about to build from the record carries the flag of that hook.
CxC30_FlagsTellHooks ==
    \A c, d \in Cpus :
       (/\ c # d
        /\ nextGen = 2
        /\ cpu[c].hook = "end" /\ cpu[c].pc = "reserve"
        /\ cpu[d].hook # "end" /\ cpu[d].pc = "done"
        /\ cpu[d].unique = cpu[c].unique
        /\ cpu[d].st # 0 /\ cpu[d].st = cpu[c].st)
       => ~ENABLED (/\ SmpEmit(c)
                    /\ Len(events') = Len(events) + 1
                    /\ BitOf(cpu[d].hook) \notin events'[Len(events')].flags)

\* C31: the sequence numbers given to enqueued requests are pairwise distinct,
\* also when the enqueue hook runs on several CPUs at once: two hooks that
\* have both returned from next_seq() hold different values.
CxC31_SeqDistinct ==
    \A c, d \in Cpus :
       (c # d /\ seq_hook[c].pc = "store" /\ seq_hook[d].pc = "store")
          => seq_hook[c].v # seq_hook[d].v

\* C32: the in-flight queue depth of a device never becomes negative, neither
\* in qdepth_pc_map nor in an event, also after a completion that no issue on
\* its CPU went before.
ThmC32_DepthNotNegative ==
    /\ \A x \in DOMAIN qdepth_pc_map : qdepth_pc_map[x] >= 0
    /\ \A i \in 1 .. Len(ringbuf) :
          ringbuf[i].type \in {"EVT_RQ_INSERT", "EVT_RQ_ISSUE", "EVT_RQ_COMPLETE"}
             => ringbuf[i].qd_cur >= 0
    /\ \A c \in Cpus, k \in IoKeys, e \in ErrVals :
          ~ENABLED (/\ on_rq_complete(c, k, e)
                    /\ CountOf(qdepth_pc_map', c, DevKeyOf(k)) < 0)

\* the depth of the device on a CPU is back at 0 and no issue of the request
\* is recorded: a completion arrives there and leaves the depth at 0
WitC32_CompletionWithoutIssue ==
    \E c \in Cpus, k \in IoKeys, e \in ErrVals :
       /\ Has(qdepth_pc_map, <<c, DevKeyOf(k)>>)
       /\ qdepth_pc_map[<<c, DevKeyOf(k)>>] = 0
       /\ ~Has(issue_ts_map, k)
       /\ ENABLED (/\ on_rq_complete(c, k, e)
                   /\ qdepth_pc_map'[<<c, DevKeyOf(k)>>] = 0)

\* the requests of the device of key that are issued and not yet completed:
\* on_rq_issue records each of them in issue_ts_map, on_rq_complete removes it
InFlight(m, key) == Cardinality({x \in DOMAIN m : DevKeyOf(x) = DevKeyOf(key)})

\* C33: the queue depth reported in an issue event is the number of requests
\* of the device that are issued and not yet completed at that moment,
\* whichever CPUs the issue and completion hooks run on: the issue of a
\* request, none being in flight, reports the depth 1.
CxC33_DepthIsInFlight ==
    \A c \in Cpus, k \in IoKeys, b \in BlkBytes :
       InFlight(issue_ts_map, k) = 0 =>
          ~ENABLED (/\ on_rq_issue(c, k, b)
                    /\ Len(ringbuf') = Len(ringbuf) + 1
                    /\ ringbuf'[Len(ringbuf')].qd_cur # InFlight(issue_ts_map', k))

\* C34: the alloc delay of a request is measured from the allocation start of
\* that same request, and each allocation-start timestamp is consumed by
\* exactly one request, also when several threads of one process allocate:
\* while a thread is between rfuse_get_req and rfuse_submit_request its start
\* timestamp is the one pid_alloc_map holds, and the request it submits gets
\* the delay 0 or the time since that start.
CxC34_OwnAllocStart ==
    \A t \in AppThreads :
       rf_thread[t].pc = "allocated"
          => /\ Has(pid_alloc_map, TgidOf(t))
             /\ pid_alloc_map[TgidOf(t)] = rf_thread[t].ts
             /\ \A op \in RfOpcodes, u \in RfUniques, q \in RiqIds :
                   ~ENABLED (/\ thread_submit_request(op, u, q, t)
                             /\ Has(rfuse_states', rfuse_req_key(q, u))
                             /\ rfuse_states'[rfuse_req_key(q, u)].alloc_delay_ns
                                   \notin {0, Sub64(now, rf_thread[t].ts)})

\* C35: a worker that has issued a write did so after main() had opened the
\* start gate: started is set, main() has left start_gate_broadcast(), and
\* that broadcast is the one that follows the ready gate, not the one of
\* the path on which pthread_create() failed; main() opens the gate once, so
\* every worker that writes does so after this same broadcast.
ThmC35_NoWriteBeforeBroadcast ==
    \A t \in Tids :
       writer[t].io =>
          /\ start_gate.started = 1
          /\ main.pc \in {"join", "done"}
          /\ ~main.failed

\* every worker has written, while main() is still joining them
WitC35_AllWorkersWrote ==
    /\ \A t \in Tids : writer[t].io /\ writer[t].ops = OpsPerThread
    /\ main.pc = "join"
    /\ main.joined = 0
=============================================================================
